---- MODULE Spec2Model ----
(***************************************************************************)
(* Model of the document translation pipeline of document_translator:      *)
(*   parser_agent.py   DocumentParserTool      (extract)                   *)
(*   file_manager.py   DocumentFileManager     (artifacts of a session)    *)
(*   translation_agent.py DocumentTranslationTool                          *)
(*   style_agent.py    DocumentStyleTool                                   *)
(*   output_agent.py   DocumentOutputTool      (reconstruct)               *)
(*                                                                         *)
(* Python dicts are functions whose DOMAIN is the set of keys present, so  *)
(* d.get(k, default) is Get(d, k, default).  Lists are sequences.  A text  *)
(* is a sequence of tokens, " " being whitespace.  An optional dict        *)
(* (document_title, title) is <<>> for None and <<d>> for the dict d.      *)
(*                                                                         *)
(* State: path is the file the parser is given (does it exist, its         *)
(* suffix), source its content, llm the behaviour of the translation       *)
(* collaborator (Config.validate() and the outcome of llm.invoke), pc the  *)
(* position of the caller of the tools, files the session directory,       *)
(* document the generated DOCX, result what the last tool returned.        *)
(***************************************************************************)
EXTENDS Integers, Sequences, FiniteSets, TLC

VARIABLES source, path, llm, disk, clock, sessions, pc, files, document, result

vars == <<source, path, llm, disk, clock, sessions, pc, files, document, result>>

(***************************************************************************)
(* Bounds of the model.                                                    *)
(***************************************************************************)
\* largest number of block nodes in a source document body
MaxBlocks == 3

\* largest number of elements of a model handed directly to the reconstructor
MaxModel == 3

\* largest number of blocks of a source whose session the tools are called on
\* in any order
MaxSession == 2

\* last instant of the clock, which counts half seconds
MaxClock == 2

\* largest number of elements of a model handed directly to the style tool
MaxStyled == 2

(***************************************************************************)
(* Python values.                                                          *)
(***************************************************************************)
\* None in an integer-valued field (index, hierarchy_level); real values are >= 0
None == -1

\* None in a string-valued field
NoneStr == "None"

\* {} : the dict without keys
EmptyDict == <<>>

\* d.get(k, default)
Get(d, k, default) == IF k \in DOMAIN d THEN d[k] ELSE default

\* d with d[k] = v assigned
Put(d, k, v) == (k :> v) @@ d

Range(s) == {s[i] : i \in 1..Len(s)}

\* words that make the text of each block of a source document recognisable
Words == <<"w0", "w1", "w2", "w3", "w4", "w5">>

Word(i) == Words[i + 1]

RECURSIVE LStrip(_)
LStrip(t) == IF t # <<>> /\ Head(t) = " " THEN LStrip(Tail(t)) ELSE t

RECURSIVE RStrip(_)
RStrip(t) ==
    IF t # <<>> /\ t[Len(t)] = " " THEN RStrip(SubSeq(t, 1, Len(t) - 1)) ELSE t

\* str.strip()
Strip(t) == RStrip(LStrip(t))

(***************************************************************************)
(* Source documents: the body of a DOCX file as python-docx shows it.      *)
(***************************************************************************)
\* the run a formatted source paragraph is written with
SourceRun(text) ==
    [text |-> text, bold |-> "True", italic |-> "None", underline |-> "None",
     font_name |-> NoneStr, font_size |-> NoneStr, color_rgb |-> "#ff0000"]

\* the styles of the plain source paragraphs (no alignment set, no runs);
\* "Weird" is a style the semantic mapping does not know
SourceStyles ==
    {"CustomTitle", "Heading 1", "Heading 2", "Normal", "FixedContent",
     "List Paragraph", "Weird"}

\* the styles of the source paragraphs that are centered and have a bold red run
FormattedSourceStyles == {"CustomTitle", "Normal"}

\* a cell of a source table
SourceCell(text) == [text |-> text, style |-> "Normal", alignment |-> "NONE"]

\* the table of place i with two rows of two cells, one of them empty
RegularTable(i) ==
    [tag |-> "tbl",
     rows |-> << [cells |-> <<SourceCell(<<Word(i)>>), SourceCell(<<>>)>>],
                 [cells |-> <<SourceCell(<<"c">>), SourceCell(<<"d">>)>>] >>]

\* the table of place i whose first row has one cell and whose second row
\* has two (a cell of the first row was deleted in the editor)
RaggedTable(i) ==
    [tag |-> "tbl",
     rows |-> << [cells |-> <<SourceCell(<<Word(i)>>)>>],
                 [cells |-> <<SourceCell(<<"c">>), SourceCell(<<"d">>)>>] >>]

\* the block nodes that can stand at place i of a body: paragraphs with
\* text, a paragraph of whitespace only, a table
BlocksAt(i) ==
    { [tag |-> "p", text |-> <<Word(i), " ">>, style |-> s,
       alignment |-> "NONE", runs |-> <<>>] : s \in SourceStyles }
    \cup
    { [tag |-> "p", text |-> <<Word(i), " ">>, style |-> s,
       alignment |-> "CENTER", runs |-> <<SourceRun(<<Word(i), " ">>)>>]
        : s \in FormattedSourceStyles }
    \cup
    { [tag |-> "p", text |-> <<" ">>, style |-> "Normal", alignment |-> "NONE",
       runs |-> <<>>] }
    \cup
    { RegularTable(i), RaggedTable(i) }

\* the last child of every body: the section properties
SectPr == [tag |-> "sectPr"]

\* the bodies of n block nodes, from place i on
RECURSIVE BodiesFrom(_, _)
BodiesFrom(i, n) ==
    IF i >= n THEN {<<SectPr>>}
    ELSE {<<b>> \o rest : b \in BlocksAt(i), rest \in BodiesFrom(i + 1, n)}

Bodies == UNION {BodiesFrom(0, n) : n \in 0..MaxBlocks}

\* the suffixes of the files handed to the parser
Suffixes == {".docx", ".DOCX", ".txt", ".pdf", ""}

\* str.lower() on a suffix
LowerSuffix(suffix) == IF suffix = ".DOCX" THEN ".docx" ELSE suffix

\* a DOCX file that exists
DocxPath == [exists |-> TRUE, suffix |-> ".docx"]

\* the block nodes at place i of the body of a source of a session the tools
\* are called on in any order
SessionBlocksAt(i) ==
    { [tag |-> "p", text |-> <<Word(i), " ">>, style |-> s,
       alignment |-> "NONE", runs |-> <<>>] : s \in {"CustomTitle", "Heading 1", "Normal"} }
    \cup { RegularTable(i) }

RECURSIVE SessionBodiesFrom(_, _)
SessionBodiesFrom(i, n) ==
    IF i >= n THEN {<<SectPr>>}
    ELSE {<<b>> \o rest : b \in SessionBlocksAt(i), rest \in SessionBodiesFrom(i + 1, n)}

SessionBodies == UNION {SessionBodiesFrom(0, n) : n \in 0..MaxSession}

\* the content of a TXT file: texts joined by blank lines ("\n\n" is one token)
RECURSIVE TxtContentsFrom(_, _)
TxtContentsFrom(i, n) ==
    IF i >= n THEN {<<>>}
    ELSE {seg \o (IF rest = <<>> THEN <<>> ELSE <<"\n\n">> \o rest) :
            seg \in {<<Word(i)>>, <<" ", Word(i), " ">>, <<" ">>},
            rest \in TxtContentsFrom(i + 1, n)}

TxtContents == UNION {TxtContentsFrom(0, n) : n \in 0..MaxSession}

(***************************************************************************)
(* parser_agent.py : DocumentParserTool                                    *)
(***************************************************************************)
\* _get_alignment: the alignment enum of python-docx as a string
ParserGetAlignment(alignment) ==
    IF alignment = "CENTER" THEN "center"
    ELSE IF alignment = "RIGHT" THEN "right"
    ELSE IF alignment = "JUSTIFY" THEN "justify"
    ELSE "left"

\* x if x is not None else False, for the tri-state run properties
OrFalse(x) == IF x # "None" THEN x = "True" ELSE FALSE

\* the run_data dict of one run
RunData(run) ==
    [text |-> run.text,
     bold |-> OrFalse(run.bold),
     italic |-> OrFalse(run.italic),
     underline |-> OrFalse(run.underline),
     font_name |-> IF run.font_name # NoneStr THEN run.font_name ELSE "Default",
     font_size |-> IF run.font_size # NoneStr THEN run.font_size ELSE "Default",
     font_color |-> IF run.color_rgb # NoneStr THEN run.color_rgb ELSE "Default"]

\* the para_data dict of a non-empty paragraph met at element_index
ParaData(para, para_text, element_index) ==
    [text |-> para_text,
     style |-> IF para.style # NoneStr THEN para.style ELSE "Normal",
     alignment |-> ParserGetAlignment(para.alignment),
     runs |-> [k \in 1..Len(para.runs) |-> RunData(para.runs[k])],
     index |-> element_index]

\* the table_data dict of a table met at element_index
TableData(table, element_index) ==
    [rows |-> [r \in 1..Len(table.rows) |->
                [cells |-> [c \in 1..Len(table.rows[r].cells) |->
                    LET cell == table.rows[r].cells[c] IN
                    [text |-> cell.text,
                     paragraphs |-> << [text |-> cell.text,
                                        style |-> cell.style,
                                        alignment |-> ParserGetAlignment(cell.alignment)] >>]]]],
     index |-> element_index]

\* ParseElement with the counter also stepped for a paragraph without text
ParseElementCountingEmpty(element, st) ==
    IF element.tag = "p" THEN
        LET para_text == Strip(element.text) IN
        IF para_text # <<>> THEN
            [paragraphs |-> Append(st.paragraphs,
                                   ParaData(element, para_text, st.element_index)),
             tables |-> st.tables,
             element_index |-> st.element_index + 1]
        ELSE [st EXCEPT !.element_index = @ + 1]
    ELSE IF element.tag = "tbl" THEN
        [paragraphs |-> st.paragraphs,
         tables |-> Append(st.tables, TableData(element, st.element_index)),
         element_index |-> st.element_index + 1]
    ELSE st

\* one turn of the loop of _parse_docx over doc.element.body; st holds the
\* lists paragraphs and tables and the counter element_index
ParseElement(element, st) ==
    IF element.tag = "p" THEN
        LET para_text == Strip(element.text) IN
        IF para_text # <<>> THEN
            [paragraphs |-> Append(st.paragraphs,
                                   ParaData(element, para_text, st.element_index)),
             tables |-> st.tables,
             element_index |-> st.element_index + 1]
        ELSE st
    ELSE IF element.tag = "tbl" THEN
        [paragraphs |-> st.paragraphs,
         tables |-> Append(st.tables, TableData(element, st.element_index)),
         element_index |-> st.element_index + 1]
    ELSE st

RECURSIVE ParseBody(_, _)
ParseBody(body, st) ==
    IF body = <<>> THEN st ELSE ParseBody(Tail(body), ParseElement(Head(body), st))

\* style_semantic_map of _analyze_semantic_structure
StyleSemanticMap ==
    [CustomTitle |-> [type |-> "document_title", level |-> 0, translatable |-> TRUE],
     CustomH1 |-> [type |-> "main_header", level |-> 1, translatable |-> TRUE],
     CustomH2 |-> [type |-> "sub_header", level |-> 2, translatable |-> TRUE],
     CustomH3 |-> [type |-> "sub_header", level |-> 3, translatable |-> TRUE],
     Normal |-> [type |-> "body_text", level |-> None, translatable |-> TRUE],
     FixedContent |-> [type |-> "special_content", level |-> None, translatable |-> TRUE],
     Quote |-> [type |-> "quote", level |-> None, translatable |-> TRUE],
     Caption |-> [type |-> "caption", level |-> None, translatable |-> TRUE]]
    @@ ("Heading 1" :> [type |-> "main_header", level |-> 1, translatable |-> TRUE])
    @@ ("Heading 2" :> [type |-> "sub_header", level |-> 2, translatable |-> TRUE])
    @@ ("Heading 3" :> [type |-> "sub_header", level |-> 3, translatable |-> TRUE])
    @@ ("List Paragraph" :> [type |-> "list_item", level |-> None, translatable |-> TRUE])

\* the default of style_semantic_map.get(style, ...)
UnknownSemanticInfo == [type |-> "unknown", level |-> None, translatable |-> TRUE]

\* SemanticInfo with the entry of Normal as the default
SemanticInfoDefaultNormal(style) == Get(StyleSemanticMap, style, StyleSemanticMap["Normal"])

\* semantic_info of a style
SemanticInfo(style) == Get(StyleSemanticMap, style, UnknownSemanticInfo)

\* the paragraph of place i (from 0) after the loop of _analyze_semantic_structure
AnalyzeParagraph(para, i) ==
    IF Strip(Get(para, "text", <<>>)) = <<>> THEN para
    ELSE LET semantic_info == SemanticInfo(Get(para, "style", "Normal")) IN
         [semantic_type |-> semantic_info.type,
          hierarchy_level |-> semantic_info.level,
          is_translatable |-> semantic_info.translatable,
          paragraph_index |-> i] @@ para

\* semantic_analysis['document_title']: the last title paragraph, or None
RECURSIVE TrackDocumentTitle(_, _, _)
TrackDocumentTitle(paragraphs, i, title) ==
    IF i > Len(paragraphs) THEN title
    ELSE LET para == paragraphs[i] IN
         IF Get(para, "semantic_type", "") = "document_title"
         THEN TrackDocumentTitle(paragraphs, i + 1,
                  << [text |-> Strip(para.text), index |-> i - 1, style |-> para.style] >>)
         ELSE TrackDocumentTitle(paragraphs, i + 1, title)

\* the part of an outline entry every kind has (lines 364-369)
OutlineEntry(type, para, level) ==
    [type |-> type,
     text |-> Strip(Get(para, "text", <<>>)),
     level |-> level,
     index |-> Get(para, "paragraph_index", None),
     style |-> Get(para, "style", NoneStr),
     children |-> <<>>]

\* the content_item of the outline (lines 403-410); the texts of the model are
\* shorter than the 100 characters text is cut at
OutlineContentItem(para) ==
    [type |-> "content",
     text |-> Strip(Get(para, "text", <<>>)),
     full_text |-> Strip(Get(para, "text", <<>>)),
     semantic_type |-> Get(para, "semantic_type", NoneStr),
     index |-> Get(para, "paragraph_index", None),
     style |-> Get(para, "style", NoneStr)]

\* current_subsection = None
NoSubsection == [at |-> "none", pos |-> 0]

\* one turn of the loop of _build_document_outline (lines 356-421).  section
\* is the place of current_section in the outline, 0 for None; subsection
\* tells where current_subsection stands: in the outline ("top") or among
\* the children of current_section ("child")
OutlineStep(st, para) ==
    LET text == Strip(Get(para, "text", <<>>))
        semantic_type == Get(para, "semantic_type", NoneStr)
        level == Get(para, "hierarchy_level", None)
    IN IF text = <<>> THEN st
       ELSE IF semantic_type = "document_title" THEN
           [st EXCEPT !.outline = Append(@, OutlineEntry("title", para, 0))]
       ELSE IF semantic_type = "main_header" THEN
           [outline |-> Append(st.outline,
                               [content |-> <<>>] @@ OutlineEntry("section", para, level)),
            section |-> Len(st.outline) + 1,
            subsection |-> NoSubsection]
       ELSE IF semantic_type = "sub_header" THEN
           LET subsection == [content |-> <<>>] @@ OutlineEntry("subsection", para, level) IN
           IF st.section # 0
           THEN [outline |-> [st.outline EXCEPT ![st.section].children = Append(@, subsection)],
                 section |-> st.section,
                 subsection |-> [at |-> "child",
                                 pos |-> Len(st.outline[st.section].children) + 1]]
           ELSE [outline |-> Append(st.outline, subsection),
                 section |-> st.section,
                 subsection |-> [at |-> "top", pos |-> Len(st.outline) + 1]]
       ELSE IF semantic_type \in {"body_text", "special_content", "list_item"} THEN
           LET content_item == OutlineContentItem(para) IN
           IF st.subsection.at = "child"
           THEN [st EXCEPT !.outline[st.section].children[st.subsection.pos].content =
                               Append(@, content_item)]
           ELSE IF st.subsection.at = "top"
           THEN [st EXCEPT !.outline[st.subsection.pos].content = Append(@, content_item)]
           ELSE IF st.section # 0
           THEN [st EXCEPT !.outline[st.section].content = Append(@, content_item)]
           ELSE [st EXCEPT !.outline = Append(@, content_item)]
       ELSE st

RECURSIVE OutlineScan(_, _)
OutlineScan(st, paragraphs) ==
    IF paragraphs = <<>> THEN st
    ELSE OutlineScan(OutlineStep(st, Head(paragraphs)), Tail(paragraphs))

\* _build_document_outline
BuildDocumentOutline(paragraphs) ==
    OutlineScan([outline |-> <<>>, section |-> 0, subsection |-> NoSubsection],
                paragraphs).outline

\* _parse_docx: the parsed data of a body
ParseDocx(body) ==
    LET st == ParseBody(body, [paragraphs |-> <<>>, tables |-> <<>>, element_index |-> 0])
        paragraphs == [i \in 1..Len(st.paragraphs) |->
                          AnalyzeParagraph(st.paragraphs[i], i - 1)]
    IN [paragraphs |-> paragraphs,
        tables |-> st.tables,
        semantic_structure |->
            [document_title |-> TrackDocumentTitle(paragraphs, 1, <<>>)],
        document_outline |-> BuildDocumentOutline(paragraphs)]

\* content.split('\n\n'); current is the paragraph being read
RECURSIVE SplitParagraphs(_, _)
SplitParagraphs(content, current) ==
    IF content = <<>> THEN <<current>>
    ELSE IF Head(content) = "\n\n"
         THEN <<current>> \o SplitParagraphs(Tail(content), <<>>)
         ELSE SplitParagraphs(Tail(content), Append(current, Head(content)))

\* the para_data dict of a paragraph of a TXT file
TxtParaData(para_text) ==
    [text |-> Strip(para_text),
     style |-> "Normal",
     alignment |-> "left",
     runs |-> << [text |-> Strip(para_text), bold |-> FALSE, italic |-> FALSE,
                  underline |-> FALSE, font_name |-> "Default",
                  font_size |-> "Default", font_color |-> "Default"] >>]

\* _parse_txt: the parsed data of the content of a TXT file
ParseTxt(content) ==
    LET kept == SelectSeq(SplitParagraphs(content, <<>>),
                          LAMBDA para_text : Strip(para_text) # <<>>)
        paragraphs == [i \in 1..Len(kept) |-> AnalyzeParagraph(TxtParaData(kept[i]), i - 1)]
    IN [paragraphs |-> paragraphs,
        tables |-> <<>>,
        semantic_structure |->
            [document_title |-> TrackDocumentTitle(paragraphs, 1, <<>>)],
        document_outline |-> BuildDocumentOutline(paragraphs)]

(***************************************************************************)
(* file_manager.py : DocumentFileManager.  files is the session directory: *)
(* a dict from the names of the files that exist to their contents.        *)
(***************************************************************************)
\* the content_item of a paragraph in _extract_translatable_content
ContentItem(para) ==
    [text |-> Get(para, "text", <<>>),
     index |-> Get(para, "paragraph_index", 0),
     style |-> Get(para, "style", ""),
     semantic_type |-> Get(para, "semantic_type", "unknown"),
     hierarchy_level |-> Get(para, "hierarchy_level", None),
     formatting |-> [alignment |-> Get(para, "alignment", "left"),
                     runs |-> Get(para, "runs", <<>>)]]

\* the group a semantic type is appended to, "" when there is none
ContentGroup(semantic_type) ==
    CASE semantic_type = "body_text" -> "body_text"
      [] semantic_type = "special_content" -> "special_content"
      [] semantic_type = "list_item" -> "list_items"
      [] semantic_type = "quote" -> "quotes"
      [] semantic_type = "caption" -> "captions"
      [] OTHER -> ""

\* one turn of the loop of _extract_translatable_content (lines 127-160)
CategorizeParagraph(tc, para) ==
    IF ~Get(para, "is_translatable", TRUE) \/ Strip(Get(para, "text", <<>>)) = <<>>
    THEN tc
    ELSE LET content_item == ContentItem(para)
             semantic_type == content_item.semantic_type
         IN IF semantic_type = "document_title" THEN
                [tc EXCEPT !.document_title = <<content_item>>]
            ELSE IF semantic_type = "main_header" THEN
                [tc EXCEPT !.headers.main_headers = Append(@, content_item)]
            ELSE IF semantic_type = "sub_header" THEN
                [tc EXCEPT !.headers.sub_headers = Append(@, content_item)]
            ELSE IF ContentGroup(semantic_type) # "" THEN
                [tc EXCEPT !.content[ContentGroup(semantic_type)] = Append(@, content_item)]
            ELSE tc

RECURSIVE CategorizeAll(_, _)
CategorizeAll(tc, paragraphs) ==
    IF paragraphs = <<>> THEN tc
    ELSE CategorizeAll(CategorizeParagraph(tc, Head(paragraphs)), Tail(paragraphs))

\* _extract_translatable_content
ExtractTranslatableContent(parsed_data) ==
    CategorizeAll(
        [document_title |-> <<>>,
         headers |-> [main_headers |-> <<>>, sub_headers |-> <<>>],
         content |-> [body_text |-> <<>>, special_content |-> <<>>,
                      list_items |-> <<>>, quotes |-> <<>>, captions |-> <<>>],
         tables |-> Get(parsed_data, "tables", <<>>),
         translation_context |-> [document_type |-> "financial_report",
                                  preserve_formatting |-> TRUE,
                                  preserve_structure |-> TRUE]],
        Get(parsed_data, "paragraphs", <<>>))

\* save_parser_output: the session directory after the parser saved
SaveParserOutput(dir, parsed_data) ==
    ("session_manifest.json" :>
        [stage |-> "parsed",
         files |-> [parsed_structure |-> "01_parsed_structure.json",
                    semantic_structure |-> "01_semantic_structure.json",
                    translatable_content |-> "01_translatable_content.json"]])
    @@ ("01_translatable_content.json" :> ExtractTranslatableContent(parsed_data))
    @@ ("01_semantic_structure.json" :>
        [semantic_structure |-> Get(parsed_data, "semantic_structure", EmptyDict)])
    @@ ("01_parsed_structure.json" :> parsed_data)
    @@ dir

\* ReturnError leaving an empty artifact for the stage behind
ReturnErrorLeavingArtifact(stage) ==
    /\ result' = [stage |-> stage, status |-> "error"]
    /\ files' = (CASE stage = "translation" -> ("02_style_agent_input.json" :> EmptyDict)
                   [] stage = "style" -> ("03_output_agent_input.json" :> EmptyDict)
                   [] OTHER -> EmptyDict) @@ files

\* ReturnError leaving a note of the failure in the manifest of the session
ReturnErrorNotingFailure(stage) ==
    /\ result' = [stage |-> stage, status |-> "error"]
    /\ files' = Put(files, "session_manifest.json",
                    [failed_stage |-> stage] @@ Get(files, "session_manifest.json", EmptyDict))

\* return f"Error: ..." of a tool: nothing was written
ReturnError(stage) ==
    /\ result' = [stage |-> stage, status |-> "error"]
    /\ files' = files

\* ParserTool reading a file of any other suffix as text
ParserToolAnySuffix ==
    IF ~path.exists
    THEN ReturnError("parser")
    ELSE IF LowerSuffix(path.suffix) = ".docx"
    THEN /\ files' = SaveParserOutput(files, ParseDocx(source))
         /\ result' = [stage |-> "parser", status |-> "parsed"]
    ELSE /\ files' = SaveParserOutput(files, ParseTxt(source))
         /\ result' = [stage |-> "parser", status |-> "parsed"]

\* the stages of the pipeline
Stages == {"parser", "translation", "style", "output"}

\* disk: the stages during which the output directory cannot be written (every
\* open for writing and every mkdir raises OSError); none in a healthy run
NoFaults == {}

\* the except branch of lines 77-79: the parsing result with a warning, which
\* carries no session_info
ReturnWarning ==
    /\ result' = [stage |-> "parser", status |-> "unsaved"]
    /\ files' = files

\* DocumentParserTool._run, save_to_files = True: what it writes and returns
ParserTool ==
    IF ~path.exists
    THEN ReturnError("parser")
    ELSE IF LowerSuffix(path.suffix) \notin {".docx", ".txt"}
    THEN ReturnError("parser")
    ELSE IF "parser" \in disk
    THEN ReturnWarning
    ELSE IF LowerSuffix(path.suffix) = ".docx"
    THEN /\ files' = SaveParserOutput(files, ParseDocx(source))
         /\ result' = [stage |-> "parser", status |-> "parsed"]
    ELSE /\ files' = SaveParserOutput(files, ParseTxt(source))
         /\ result' = [stage |-> "parser", status |-> "parsed"]

\* step 1 of run_translation_pipeline: without a session id the driver returns
ParserRun ==
    /\ pc = "start"
    /\ ParserTool
    /\ pc' = IF result'.status = "parsed" THEN "parsed" ELSE "failed"
    /\ UNCHANGED <<source, path, llm, disk, clock, sessions, document>>

\* the parser tool called on its own; the session directory is the one this
\* call creates
ParserCall ==
    /\ pc = "any"
    /\ files = EmptyDict
    /\ ParserTool
    /\ UNCHANGED <<source, path, llm, disk, clock, sessions, pc, document>>

(***************************************************************************)
(* translation_agent.py : DocumentTranslationTool                          *)
(***************************************************************************)
\* the languages a run translates to
TargetLanguages == {"Spanish", "Japanese"}

\* str.upper() and str.lower() on the language names
Upper(language) ==
    CASE language = "Spanish" -> "SPANISH"
      [] language = "Japanese" -> "JAPANESE"
      [] OTHER -> "ENGLISH"

Lower(language) ==
    CASE language = "Spanish" -> "spanish"
      [] language = "Japanese" -> "japanese"
      [] OTHER -> "english"

\* the behaviours of the translation collaborator during a session: is a
\* provider configured (Config.validate()), the words on whose text
\* llm.invoke raises, and the kind of response it gives otherwise
LlmReplies == {"plain", "labelled", "marked"}

NoLlm == [configured |-> FALSE, fails |-> {}, reply |-> "plain"]

LlmBehaviours(words) ==
    {NoLlm} \cup
    {[configured |-> TRUE, fails |-> f, reply |-> r] : f \in SUBSET words, r \in LlmReplies}

\* does llm.invoke raise on the prompt for this text
LlmFails(text) == Range(text) \cap llm.fails # {}

\* the translation of a text by the collaborator
Rendering(text) == <<"tr", " ">> \o text

\* response.content: the translation alone, the translation behind a label,
\* or a label and the marked source text
LlmResponse(text, target_lang) ==
    CASE llm.reply = "plain" -> Rendering(text) \o <<" ">>
      [] llm.reply = "labelled" -> <<"Translation:", " ">> \o Rendering(text)
      [] OTHER -> <<"Translation:", " ", "[", Upper(target_lang), "]", " ">> \o text

\* prefixes_to_remove, in the order of the list
PrefixesToRemove(target_lang) ==
    << <<"[", Upper(target_lang), "]">>, <<"[", Lower(target_lang), "]">>,
       <<Upper(target_lang), ":">>, <<Lower(target_lang), ":">>,
       <<"Translation:">>, <<"Translated text:">>, <<"Result:">> >>

\* str.startswith
StartsWith(text, prefix) ==
    Len(text) >= Len(prefix) /\ SubSeq(text, 1, Len(prefix)) = prefix

\* the loop of lines 397-399: each prefix is tried once, in order
RECURSIVE RemovePrefixes(_, _)
RemovePrefixes(translated_text, prefixes) ==
    IF prefixes = <<>> THEN translated_text
    ELSE RemovePrefixes(
             IF StartsWith(translated_text, Head(prefixes))
             THEN Strip(SubSeq(translated_text, Len(Head(prefixes)) + 1,
                               Len(translated_text)))
             ELSE translated_text,
             Tail(prefixes))

\* the marked fallback f"[{target_lang.upper()}] {text}"
MarkedFallback(text, target_lang) == <<"[", Upper(target_lang), "]", " ">> \o text

\* CallAzureOpenaiTranslation giving back the source text when the call fails
CallAzureOpenaiTranslationUnmarked(text, source_lang, target_lang) ==
    IF LlmFails(text) THEN text
    ELSE RemovePrefixes(Strip(LlmResponse(text, target_lang)),
                        PrefixesToRemove(target_lang))

\* _call_azure_openai_translation
CallAzureOpenaiTranslation(text, source_lang, target_lang) ==
    IF LlmFails(text) THEN MarkedFallback(text, target_lang)
    ELSE RemovePrefixes(Strip(LlmResponse(text, target_lang)),
                        PrefixesToRemove(target_lang))

\* _simulate_translation
SimulateTranslation(text, context) ==
    IF llm.configured
    THEN CallAzureOpenaiTranslation(text, context.source_language,
                                    context.target_language)
    ELSE MarkedFallback(text, context.target_language)

\* _translate_document_title
TranslateDocumentTitle(title_item, context) ==
    LET original_text == Get(title_item, "text", <<>>) IN
    [original_text |-> original_text,
     translated_text |-> SimulateTranslation(original_text, context),
     semantic_type |-> Get(title_item, "semantic_type", NoneStr),
     index |-> Get(title_item, "index", None),
     style |-> Get(title_item, "style", NoneStr),
     formatting |-> Get(title_item, "formatting", EmptyDict),
     translation_notes |->
        <<"Translated as document title in", context.translation_style, "style">>]

\* _translate_header
TranslateHeader(header_item, context, level) ==
    LET original_text == Get(header_item, "text", <<>>) IN
    [original_text |-> original_text,
     translated_text |-> SimulateTranslation(original_text, context),
     semantic_type |-> Get(header_item, "semantic_type", NoneStr),
     hierarchy_level |-> Get(header_item, "hierarchy_level", None),
     index |-> Get(header_item, "index", None),
     style |-> Get(header_item, "style", NoneStr),
     formatting |-> Get(header_item, "formatting", EmptyDict),
     translation_notes |->
        <<"Level", IF level = 1 THEN "1" ELSE "2",
          "header translation - preserved structural meaning">>]

\* translation_strategies of _translate_content_item
TranslationStrategies ==
    [body_text |-> "natural_flow",
     special_content |-> "careful_preserve_meaning",
     list_items |-> "concise_clear",
     quotes |-> "preserve_tone_and_meaning",
     captions |-> "descriptive_accurate"]

\* TranslateContentItem reading the index under the parser's key paragraph_index
TranslateContentItemWrongKey(content_item, context, content_type) ==
    LET original_text == Get(content_item, "text", <<>>) IN
    [original_text |-> original_text,
     translated_text |-> SimulateTranslation(original_text, context),
     semantic_type |-> Get(content_item, "semantic_type", NoneStr),
     index |-> Get(content_item, "paragraph_index", None),
     style |-> Get(content_item, "style", NoneStr),
     formatting |-> Get(content_item, "formatting", EmptyDict),
     translation_strategy |-> Get(TranslationStrategies, content_type, "natural_flow"),
     translation_notes |->
        <<"Translated", content_type, "using",
          Get(TranslationStrategies, content_type, "natural_flow"), "approach">>]

\* _translate_content_item
TranslateContentItem(content_item, context, content_type) ==
    LET original_text == Get(content_item, "text", <<>>) IN
    [original_text |-> original_text,
     translated_text |-> SimulateTranslation(original_text, context),
     semantic_type |-> Get(content_item, "semantic_type", NoneStr),
     index |-> Get(content_item, "index", None),
     style |-> Get(content_item, "style", NoneStr),
     formatting |-> Get(content_item, "formatting", EmptyDict),
     translation_strategy |-> Get(TranslationStrategies, content_type, "natural_flow"),
     translation_notes |->
        <<"Translated", content_type, "using",
          Get(TranslationStrategies, content_type, "natural_flow"), "approach">>]

\* _translate_table
TranslateTable(table_data, context) ==
    [original_table |-> table_data,
     translation_notes |->
        <<"Table structure preserved - cell content would be translated">>,
     requires_cell_translation |-> TRUE]

\* the groups translated_content['content'] starts with
ContentTypes == {"body_text", "special_content", "list_items", "quotes", "captions"}

\* _translate_by_semantic_type
TranslateBySemanticType(translatable_content, context) ==
    LET title == Get(translatable_content, "document_title", <<>>)
        headers == Get(translatable_content, "headers", EmptyDict)
        content == Get(translatable_content, "content", EmptyDict)
        tables == Get(translatable_content, "tables", <<>>)
        main_headers == Get(headers, "main_headers", <<>>)
        sub_headers == Get(headers, "sub_headers", <<>>)
    IN [translation_metadata |->
            [source_language |-> context.source_language,
             target_language |-> context.target_language,
             translation_style |-> context.translation_style,
             document_type |-> context.document_type],
        document_title |->
            IF title # <<>> THEN <<TranslateDocumentTitle(title[1], context)>> ELSE <<>>,
        headers |->
            [main_headers |-> [k \in 1..Len(main_headers) |->
                                  TranslateHeader(main_headers[k], context, 1)],
             sub_headers |-> [k \in 1..Len(sub_headers) |->
                                  TranslateHeader(sub_headers[k], context, 2)]],
        content |->
            [content_type \in ContentTypes \cup DOMAIN content |->
                IF content_type \in DOMAIN content
                THEN [k \in 1..Len(content[content_type]) |->
                         TranslateContentItem(content[content_type][k], context,
                                              content_type)]
                ELSE <<>>],
        tables |-> [k \in 1..Len(tables) |-> TranslateTable(tables[k], context)],
        translation_notes |-> <<>>]

\* the style_input dict of save_translation_output (lines 235-254)
StyleAgentInput(translated_content) ==
    [session_metadata |-> [ready_for_style_agent |-> TRUE],
     translation_context |-> Get(translated_content, "translation_metadata", EmptyDict),
     document_elements |->
        [title |-> Get(translated_content, "document_title", <<>>),
         headers |-> Get(translated_content, "headers", EmptyDict),
         content_blocks |-> Get(translated_content, "content", EmptyDict),
         tables |-> Get(translated_content, "tables", <<>>)]]

\* the summary_data dict of save_translation_output (lines 212-227)
TranslationSummaryData(translated_content) ==
    [stats |->
        [title_translated |-> Get(translated_content, "document_title", <<>>) # <<>>,
         main_headers |->
            Len(Get(Get(translated_content, "headers", EmptyDict), "main_headers", <<>>)),
         sub_headers |->
            Len(Get(Get(translated_content, "headers", EmptyDict), "sub_headers", <<>>)),
         tables_translated |-> Len(Get(translated_content, "tables", <<>>))]]

\* SaveTranslationOutput putting the translated content also in the place of
\* the translatable content it was made from
SaveTranslationOutputInPlace(dir, translated_content) ==
    IF DOMAIN dir = {} THEN dir
    ELSE ("01_translatable_content.json" :> translated_content)
         @@ ("02_style_agent_input.json" :> StyleAgentInput(translated_content))
         @@ ("02_translation_summary.json" :> TranslationSummaryData(translated_content))
         @@ ("02_translated_content.json" :> translated_content)
         @@ dir

\* save_translation_output: the session directory afterwards; nothing is
\* written when the session directory does not exist
SaveTranslationOutput(dir, translated_content) ==
    IF DOMAIN dir = {} THEN dir
    ELSE LET written ==
                 ("02_style_agent_input.json" :> StyleAgentInput(translated_content))
                 @@ ("02_translation_summary.json" :>
                        TranslationSummaryData(translated_content))
                 @@ ("02_translated_content.json" :> translated_content)
                 @@ dir
         IN IF "session_manifest.json" \in DOMAIN dir
            THEN ("session_manifest.json" :>
                     ( [stage |-> "translated",
                        translation_completed |-> TRUE,
                        ready_for_style_agent |-> TRUE,
                        files |-> [translated_content |-> "02_translated_content.json"]
                                  @@ dir["session_manifest.json"].files]
                       @@ dir["session_manifest.json"] ))
                 @@ written
            ELSE written

\* DocumentTranslationTool._run: what it writes and returns
TranslationTool(target_language) ==
    IF "01_translatable_content.json" \notin DOMAIN files
    THEN ReturnError("translation")
    ELSE LET translatable_content == files["01_translatable_content.json"]
             context ==
                 [source_language |-> "English",
                  target_language |-> target_language,
                  document_type |->
                      Get(Get(translatable_content, "translation_context", EmptyDict),
                          "document_type", "general"),
                  translation_style |-> "formal"]
             translated_content ==
                 TranslateBySemanticType(translatable_content, context)
             saved_files ==
                 IF "translation" \in disk THEN files
                 ELSE SaveTranslationOutput(files, translated_content)
         IN /\ files' = saved_files
            /\ result' = [stage |-> "translation", status |-> "translation_completed"]

\* step 2 of run_translation_pipeline
TranslationRun ==
    /\ pc = "parsed"
    /\ \E target_language \in TargetLanguages : TranslationTool(target_language)
    /\ pc' = "translated"
    /\ UNCHANGED <<source, path, llm, disk, clock, sessions, document>>

\* the translation tool called on its own
TranslationCall ==
    /\ pc = "any"
    /\ \E target_language \in TargetLanguages : TranslationTool(target_language)
    /\ UNCHANGED <<source, path, llm, disk, clock, sessions, pc, document>>

(***************************************************************************)
(* config.py : FontConfig, and style_agent.py : DocumentStyleTool          *)
(***************************************************************************)
\* FontConfig.LANGUAGE_FONTS, the entries of the languages of the model
LanguageFonts ==
    [japanese |-> [primary |-> <<"Meiryo", "MS Gothic", "Yu Gothic">>,
                   fallback |-> <<"Arial Unicode MS", "Segoe UI", "Arial">>],
     spanish |-> [primary |-> <<"Arial", "Calibri", "Times New Roman">>,
                  fallback |-> <<"Segoe UI", "Tahoma", "Helvetica">>],
     english |-> [primary |-> <<"Arial", "Calibri", "Times New Roman">>,
                  fallback |-> <<"Segoe UI", "Tahoma", "Helvetica">>]]

\* FontConfig.UNIVERSAL_FALLBACKS
UniversalFallbacks == <<"Arial Unicode MS", "Segoe UI", "Tahoma", "Arial", "sans-serif">>

\* the fonts of a list without the later duplicates, in order
RECURSIVE UniqueFonts(_, _)
UniqueFonts(font_stack, unique_fonts) ==
    IF font_stack = <<>> THEN unique_fonts
    ELSE UniqueFonts(Tail(font_stack),
                     IF Head(font_stack) \in Range(unique_fonts) THEN unique_fonts
                     ELSE Append(unique_fonts, Head(font_stack)))

\* FontConfig.get_font_stack
GetFontStack(language) ==
    LET language_key == Lower(language) IN
    UniqueFonts(IF language_key \in DOMAIN LanguageFonts
                THEN LanguageFonts[language_key].primary
                     \o LanguageFonts[language_key].fallback
                ELSE LanguageFonts["english"].primary \o UniversalFallbacks,
                <<>>)

\* FontConfig.get_primary_font
GetPrimaryFont(language) ==
    LET language_key == Lower(language) IN
    IF language_key \in DOMAIN LanguageFonts
    THEN LanguageFonts[language_key].primary[1]
    ELSE LanguageFonts["english"].primary[1]

\* _get_language_style_rules
GetLanguageStyleRules(target_language) ==
    [writing_direction |-> "ltr",
     preferred_fonts |-> GetFontStack(target_language),
     primary_font |-> GetPrimaryFont(target_language),
     text_alignment_default |-> "justify",
     header_alignment |-> "left"]

\* STYLE_PROFILES["professional"]
ProfessionalProfile ==
    [name |-> "professional",
     font_families |-> <<"Arial", "Calibri", "Times New Roman">>,
     font_sizes |-> [document_title |-> "18pt", main_header |-> "14pt",
                     sub_header |-> "12pt", body_text |-> "11pt",
                     special_content |-> "10pt"],
     colors |-> [document_title |-> "#1f4e79", main_header |-> "#2c5aa0",
                 sub_header |-> "#365f91", body_text |-> "#1a1a1a",
                 special_content |-> "#5d6d7e"],
     alignments |-> [document_title |-> "center", main_header |-> "left",
                     sub_header |-> "left", body_text |-> "justify",
                     special_content |-> "left"],
     spacing |-> [document_title |-> "24pt after",
                  main_header |-> "18pt before, 6pt after",
                  sub_header |-> "12pt before, 3pt after",
                  body_text |-> "0pt before, 6pt after",
                  special_content |-> "6pt before, 6pt after"]]

\* StyledAlignment without the branch that keeps center
StyledAlignmentDefaultOnly(element_type, original_formatting, language_rules) ==
    IF element_type = "document_title" THEN "center"
    ELSE IF element_type \in {"main_header", "sub_header"}
         THEN language_rules.header_alignment
    ELSE language_rules.text_alignment_default

\* the alignment _apply_style_profile chooses (lines 127-137)
StyledAlignment(element_type, original_formatting, language_rules) ==
    LET original_alignment == Get(original_formatting, "alignment", "left") IN
    IF element_type = "document_title" THEN "center"
    ELSE IF element_type \in {"main_header", "sub_header"}
         THEN language_rules.header_alignment
    ELSE IF original_alignment = "center" THEN "center"
    ELSE language_rules.text_alignment_default

\* ShouldBeBold for every element type
ShouldBeBoldAlways(element_type) == TRUE

\* ShouldBeBold for the title alone
ShouldBeBoldTitleOnly(element_type) == element_type = "document_title"

\* should_be_bold (line 147)
ShouldBeBold(element_type) ==
    element_type \in {"document_title", "main_header", "sub_header"}

\* the new_run dict (lines 156-165 and 169-178)
StyledRun(element_type, content_element, style_profile, language_rules, bold, italic, underline) ==
    [text |-> Get(content_element, "translated_text",
                  Get(content_element, "original_text", <<>>)),
     bold |-> bold,
     italic |-> italic,
     underline |-> underline,
     font_name |-> language_rules.primary_font,
     font_stack |-> language_rules.preferred_fonts,
     font_size |-> Get(style_profile.font_sizes, element_type, "11pt"),
     font_color |-> Get(style_profile.colors, element_type, "#000000")]

\* StyledRuns putting the new runs behind the runs the element was styled
\* with before
StyledRunsAdditive(element_type, content_element, style_profile, language_rules) ==
    LET original_formatting == Get(content_element, "formatting", EmptyDict) IN
    Get(Get(content_element, "styled_formatting", EmptyDict), "runs", <<>>)
    \o
    (IF "runs" \in DOMAIN original_formatting
     THEN [k \in 1..Len(original_formatting.runs) |->
             LET run == original_formatting.runs[k] IN
             StyledRun(element_type, content_element, style_profile, language_rules,
                       ShouldBeBold(element_type) \/ Get(run, "bold", FALSE),
                       Get(run, "italic", FALSE), Get(run, "underline", FALSE))]
     ELSE << StyledRun(element_type, content_element, style_profile, language_rules,
                       ShouldBeBold(element_type), FALSE, FALSE) >>)

\* new_formatting["runs"] (lines 153-178)
StyledRuns(element_type, content_element, style_profile, language_rules) ==
    LET original_formatting == Get(content_element, "formatting", EmptyDict) IN
    IF "runs" \in DOMAIN original_formatting
    THEN [k \in 1..Len(original_formatting.runs) |->
            LET run == original_formatting.runs[k] IN
            StyledRun(element_type, content_element, style_profile, language_rules,
                      ShouldBeBold(element_type) \/ Get(run, "bold", FALSE),
                      Get(run, "italic", FALSE), Get(run, "underline", FALSE))]
    ELSE << StyledRun(element_type, content_element, style_profile, language_rules,
                      ShouldBeBold(element_type), FALSE, FALSE) >>

\* _apply_style_profile
ApplyStyleProfile(element_type, content_element, style_profile, language_rules) ==
    LET original_formatting == Get(content_element, "formatting", EmptyDict)
        new_formatting ==
            [alignment |-> StyledAlignment(element_type, original_formatting, language_rules),
             spacing |-> Get(style_profile.spacing, element_type, "6pt after"),
             runs |-> StyledRuns(element_type, content_element, style_profile,
                                 language_rules)]
    IN [styled_formatting |-> new_formatting,
        style_profile |-> style_profile.name,
        language_adapted |-> TRUE] @@ content_element

\* the content types the loops of _run style (lines 252 and 265)
StyledContentTypes == <<"body_text", "special_content">>

\* styled_elements of _run (lines 216-288)
StyleElements(document_elements, style_profile, language_rules) ==
    LET styled(element_type, items) ==
            [k \in 1..Len(items) |->
                ApplyStyleProfile(element_type, items[k], style_profile, language_rules)]
        headers == Get(document_elements, "headers", EmptyDict)
        content == Get(document_elements, "content", EmptyDict)
        content_blocks == Get(document_elements, "content_blocks", EmptyDict)
        title == Get(document_elements, "title", <<>>)
    IN (IF title # <<>>
        THEN [title |-> << ApplyStyleProfile("document_title", title[1],
                                             style_profile, language_rules) >>]
        ELSE EmptyDict)
       @@
       [headers |->
            [header_type \in {"main_headers", "sub_headers"} \cap DOMAIN headers |->
                styled(IF header_type = "main_headers" THEN "main_header" ELSE "sub_header",
                       headers[header_type])],
        content |->
            [content_type \in Range(StyledContentTypes)
                              \cap (DOMAIN content \cup DOMAIN content_blocks) |->
                (IF content_type \in DOMAIN content
                 THEN styled(content_type, content[content_type]) ELSE <<>>)
                \o
                (IF content_type \in DOMAIN content_blocks
                 THEN styled(content_type, content_blocks[content_type]) ELSE <<>>)],
        tables |->
            LET tables == Get(document_elements, "tables", <<>>) IN
            [k \in 1..Len(tables) |-> [table_styled |-> TRUE] @@ tables[k]]]

\* the output_agent_input dict of _run (lines 334-358)
OutputAgentInput(styled_elements, style_profile, language_rules, target_language) ==
    [session_metadata |-> [ready_for_output_agent |-> TRUE],
     generation_context |-> [output_format |-> "docx",
                             style_profile |-> style_profile.name,
                             language |-> target_language],
     document_structure |->
        [title |-> Get(styled_elements, "title", <<>>),
         headers |-> Get(styled_elements, "headers", EmptyDict),
         content |-> Get(styled_elements, "content", EmptyDict),
         tables |-> Get(styled_elements, "tables", <<>>)],
     style_specifications |->
        [primary_font |-> language_rules.primary_font,
         font_stack |-> language_rules.preferred_fonts,
         font_families |-> style_profile.font_families,
         colors |-> style_profile.colors,
         alignments |-> style_profile.alignments,
         spacing |-> style_profile.spacing]]

\* the number of elements a styled group holds
GroupLen(d, k) == Len(Get(d, k, <<>>))

\* DocumentStyleTool._run: what it writes and returns
StyleTool ==
       IF "02_style_agent_input.json" \notin DOMAIN files
       THEN ReturnError("style")
       ELSE IF "style" \in disk
       THEN ReturnError("style")
       ELSE LET translation_data == files["02_style_agent_input.json"]
                document_elements == Get(translation_data, "document_elements", EmptyDict)
                target_language ==
                    Get(Get(translation_data, "translation_context", EmptyDict),
                        "target_language", "English")
                style_profile == ProfessionalProfile
                language_rules == GetLanguageStyleRules(target_language)
                styled_elements ==
                    StyleElements(document_elements, style_profile, language_rules)
                elements_styled_count ==
                    [document_title |-> IF "title" \in DOMAIN styled_elements THEN 1 ELSE 0,
                     main_headers |-> GroupLen(styled_elements.headers, "main_headers"),
                     sub_headers |-> GroupLen(styled_elements.headers, "sub_headers"),
                     content_sections |->
                        GroupLen(styled_elements.content, "body_text")
                        + GroupLen(styled_elements.content, "special_content"),
                     tables |-> Len(styled_elements.tables)]
                old_manifest == Get(files, "session_manifest.json", EmptyDict)
            IN /\ files' =
                    ("session_manifest.json" :>
                        ( [style_agent_completed |-> TRUE,
                           output_agent_input_file |-> "03_output_agent_input.json",
                           total_elements_styled |->
                               elements_styled_count.document_title
                               + elements_styled_count.main_headers
                               + elements_styled_count.sub_headers
                               + elements_styled_count.content_sections
                               + elements_styled_count.tables]
                          @@ old_manifest ))
                    @@ ("03_output_agent_input.json" :>
                            OutputAgentInput(styled_elements, style_profile,
                                             language_rules, target_language))
                    @@ ("03_style_summary.json" :>
                            [elements_styled |-> elements_styled_count])
                    @@ ("03_styled_content.json" :>
                            [styled_elements |-> styled_elements])
                    @@ files
               /\ result' = [stage |-> "style", status |-> "completed"]

\* step 3 of run_translation_pipeline
StyleRun ==
    /\ pc = "translated"
    /\ StyleTool
    /\ pc' = "styled"
    /\ UNCHANGED <<source, path, llm, disk, clock, sessions, document>>

\* the style tool called on its own
StyleCall ==
    /\ pc = "any"
    /\ StyleTool
    /\ UNCHANGED <<source, path, llm, disk, clock, sessions, pc, document>>

(***************************************************************************)
(* output_agent.py : DocumentOutputTool.  A generated document is the      *)
(* sequence of the paragraphs and tables added to it.                      *)
(***************************************************************************)
\* _hex_to_rgb: the colour, black when it does not parse
HexToRgb(hex_color) ==
    IF hex_color \in {"#1f4e79", "#2c5aa0", "#365f91", "#1a1a1a", "#5d6d7e",
                      "#000000", "#ff0000", "#2c3e50", "#34495e"}
    THEN hex_color ELSE "#000000"

\* _parse_spacing, on the spacing strings of the style profiles
ParseSpacing(spacing_str) ==
    CASE spacing_str = "24pt after" -> [before |-> 0, after |-> 24]
      [] spacing_str = "18pt before, 6pt after" -> [before |-> 18, after |-> 6]
      [] spacing_str = "12pt before, 3pt after" -> [before |-> 12, after |-> 3]
      [] spacing_str = "0pt before, 6pt after" -> [before |-> 0, after |-> 6]
      [] spacing_str = "6pt before, 6pt after" -> [before |-> 6, after |-> 6]
      [] spacing_str = "6pt after" -> [before |-> 0, after |-> 6]
      [] OTHER -> [before |-> 0, after |-> 0]

\* _get_alignment of the output agent: alignment_map.get(s.lower(), LEFT)
OutputGetAlignment(alignment_str) ==
    CASE alignment_str \in {"left", "LEFT"} -> "LEFT"
      [] alignment_str \in {"center", "CENTER"} -> "CENTER"
      [] alignment_str \in {"right", "RIGHT"} -> "RIGHT"
      [] alignment_str \in {"justify", "JUSTIFY"} -> "JUSTIFY"
      [] OTHER -> "LEFT"

\* float(font_size.replace("pt", "")) in points, 11 when it does not parse
FontSizePt(font_size) ==
    CASE font_size = "18pt" -> 18
      [] font_size = "14pt" -> 14
      [] font_size = "12pt" -> 12
      [] font_size = "11pt" -> 11
      [] font_size = "10pt" -> 10
      [] font_size = "152400" -> 152400
      [] OTHER -> 11

\* _apply_run_formatting_without_text: the font of the run written
ApplyRunFormattingWithoutText(run_data, default_font) ==
    [name |-> Get(run_data, "font_name", default_font),
     bold |-> Get(run_data, "bold", FALSE),
     italic |-> Get(run_data, "italic", FALSE),
     underline |-> Get(run_data, "underline", FALSE),
     size |-> IF Get(run_data, "font_size", "11pt") # "Default"
              THEN FontSizePt(Get(run_data, "font_size", "11pt")) ELSE None,
     color |-> IF Get(run_data, "font_color", "#000000") # "Default"
               THEN HexToRgb(Get(run_data, "font_color", "#000000")) ELSE NoneStr]

\* is this run the one lines 148-151 stop at?
IsSpecialRun(run_data) ==
    \/ Get(run_data, "bold", FALSE)
    \/ Get(run_data, "italic", FALSE)
    \/ Get(run_data, "font_color", "Default") # "Default"

\* primary_run of lines 147-151
PrimaryRun(runs) ==
    IF \E k \in 1..Len(runs) : IsSpecialRun(runs[k])
    THEN runs[CHOOSE k \in 1..Len(runs) :
                 /\ IsSpecialRun(runs[k])
                 /\ \A j \in 1..(k - 1) : ~IsSpecialRun(runs[j])]
    ELSE runs[1]

\* the font of a run of a paragraph without runs (lines 165-180)
SemanticFont(semantic_type, font_family) ==
    IF semantic_type = "document_title"
    THEN [name |-> font_family, bold |-> TRUE, size |-> 18, color |-> "#2c3e50"]
    ELSE IF semantic_type \in {"main_header", "sub_header"}
    THEN [name |-> font_family, bold |-> TRUE,
          size |-> IF semantic_type = "main_header" THEN 14 ELSE 12,
          color |-> "#34495e"]
    ELSE [name |-> font_family, size |-> 11, color |-> "#1a1a1a"]

\* the paragraph doc.add_paragraph() gives
EmptyParagraph == [kind |-> "paragraph", runs |-> <<>>]

\* _add_paragraph_with_formatting: the paragraph added
AddParagraphWithFormatting(element, style_profile) ==
    LET formatting == Get(element, "styled_formatting", Get(element, "formatting", EmptyDict))
        spacing == ParseSpacing(Get(formatting, "spacing", "6pt after"))
        runs == Get(formatting, "runs", <<>>)
        translated_text == Get(element, "translated_text",
                               Get(element, "original_text", <<>>))
        font_family == Get(style_profile, "font_families", <<"Arial">>)[1]
    IN [kind |-> "paragraph",
        alignment |-> OutputGetAlignment(Get(formatting, "alignment", "left")),
        space_before |-> IF spacing.before > 0 THEN spacing.before ELSE None,
        space_after |-> IF spacing.after > 0 THEN spacing.after ELSE None,
        runs |->
            IF Len(runs) > 1 THEN
                << [text |-> translated_text,
                    font |-> ApplyRunFormattingWithoutText(PrimaryRun(runs), font_family)] >>
            ELSE IF Len(runs) = 1 THEN
                << [text |-> translated_text,
                    font |-> ApplyRunFormattingWithoutText(runs[1], font_family)] >>
            ELSE IF translated_text # <<>> THEN
                << [text |-> translated_text,
                    font |-> SemanticFont(Get(element, "semantic_type", "body_text"),
                                          font_family)] >>
            ELSE <<>>]

\* _add_table_with_formatting: what is added to the document
AddTableWithFormatting(table_data, style_profile) ==
    LET original_table == Get(table_data, "original_table", EmptyDict)
        rows_data == Get(original_table, "rows", <<>>)
        num_rows == Len(rows_data)
        num_cols == IF rows_data # <<>> THEN Len(Get(rows_data[1], "cells", <<>>)) ELSE 0
    IN IF rows_data = <<>> \/ num_cols = 0 THEN <<>>
       ELSE << [kind |-> "table",
                rows |-> [r \in 1..num_rows |->
                    LET cells_data == Get(rows_data[r], "cells", <<>>) IN
                    [c \in 1..num_cols |->
                        [text |-> IF c <= Len(cells_data)
                                  THEN Get(cells_data[c], "text", <<>>) ELSE <<>>,
                         bold |-> r = 1,
                         size |-> IF r = 1 THEN 10 ELSE 9]]]],
               EmptyParagraph >>

\* the sort key of line 279: x.get("index", 0)
SortKey(x) == Get(x, "index", 0)

\* list.sort(key=...) is stable: x goes behind the elements whose key is not larger
RECURSIVE InsertByIndex(_, _)
InsertByIndex(sorted, x) ==
    IF sorted = <<>> THEN <<x>>
    ELSE LET last == sorted[Len(sorted)] IN
         IF SortKey(last) <= SortKey(x) THEN Append(sorted, x)
         ELSE Append(InsertByIndex(SubSeq(sorted, 1, Len(sorted) - 1), x), last)

RECURSIVE SortByIndex(_, _)
SortByIndex(sorted, rest) ==
    IF rest = <<>> THEN sorted
    ELSE SortByIndex(InsertByIndex(sorted, Head(rest)), Tail(rest))

\* comparing None with a key raises TypeError; a list of one element is not compared
SortRaises(all_elements) ==
    /\ Len(all_elements) >= 2
    /\ \E k \in 1..Len(all_elements) : SortKey(all_elements[k]) = None

\* the groups _create_document_structure collects, in the order of lines 255-267
CollectedHeaderTypes == <<"main_headers", "sub_headers">>

CollectedContentTypes == <<"body_text", "special_content">>

\* the elements of the groups named in types, one group after the other
RECURSIVE CollectGroups(_, _)
CollectGroups(groups, types) ==
    IF types = <<>> THEN <<>>
    ELSE LET items == Get(groups, Head(types), <<>>) IN
         [k \in 1..Len(items) |-> Put(items[k], "element_type", "paragraph")]
         \o CollectGroups(groups, Tail(types))

\* the table as it is put on all_elements (lines 271-276)
CollectTable(table_data) ==
    LET tagged == Put(table_data, "element_type", "table") IN
    IF "original_table" \in DOMAIN table_data
       /\ "index" \in DOMAIN table_data.original_table
    THEN Put(tagged, "index", table_data.original_table.index)
    ELSE tagged

\* all_elements before the sort (lines 252-276)
AllElements(styled_elements) ==
    CollectGroups(Get(styled_elements, "headers", EmptyDict), CollectedHeaderTypes)
    \o CollectGroups(Get(styled_elements, "content", EmptyDict), CollectedContentTypes)
    \o LET tables == Get(styled_elements, "tables", <<>>) IN
       [k \in 1..Len(tables) |-> CollectTable(tables[k])]

\* what the loop of lines 282-286 adds for the elements
RECURSIVE AddElements(_, _)
AddElements(all_elements, style_profile) ==
    IF all_elements = <<>> THEN <<>>
    ELSE LET element == Head(all_elements) IN
         (IF Get(element, "element_type", "") = "table"
          THEN AddTableWithFormatting(element, style_profile)
          ELSE <<AddParagraphWithFormatting(element, style_profile)>>)
         \o AddElements(Tail(all_elements), style_profile)

\* the title paragraph and the space after it (lines 246-249)
AddTitle(styled_elements, style_profile) ==
    LET title == Get(styled_elements, "title", <<>>) IN
    IF title # <<>>
    THEN <<AddParagraphWithFormatting(title[1], style_profile), EmptyParagraph>>
    ELSE <<>>

\* _create_document_structure: the document, or the exception of the sort
CreateDocumentStructure(styled_elements, style_profile) ==
    LET all_elements == AllElements(styled_elements) IN
    IF SortRaises(all_elements) THEN [raised |-> TRUE, doc |-> <<>>]
    ELSE [raised |-> FALSE,
          doc |-> AddTitle(styled_elements, style_profile)
                  \o AddElements(SortByIndex(<<>>, all_elements), style_profile)]

\* DocumentOutputTool._run: what it writes and returns
OutputTool ==
       IF "03_output_agent_input.json" \notin DOMAIN files
       THEN ReturnError("output") /\ UNCHANGED document
       ELSE LET styled_data == files["03_output_agent_input.json"]
                document_structure == Get(styled_data, "document_structure", EmptyDict)
                style_specifications == Get(styled_data, "style_specifications", EmptyDict)
                created == CreateDocumentStructure(document_structure, style_specifications)
                headers == Get(document_structure, "headers", EmptyDict)
                content == Get(document_structure, "content", EmptyDict)
            IN IF created.raised \/ "output" \in disk
               THEN ReturnError("output") /\ UNCHANGED document
               ELSE /\ document' = <<created.doc>>
                    /\ files' =
                         ("session_manifest.json" :>
                             ( [output_agent_completed |-> TRUE,
                                generation_stage |-> "completed"]
                               @@ Get(files, "session_manifest.json", EmptyDict) ))
                         @@ ("04_qa_agent_input.json" :>
                                [session_metadata |-> [ready_for_qa_agent |-> TRUE]])
                         @@ ("04_generation_summary.json" :>
                                [document_stats |->
                                    [total_elements |->
                                        GroupLen(headers, "main_headers")
                                        + GroupLen(headers, "sub_headers")
                                        + GroupLen(content, "body_text")
                                        + GroupLen(content, "special_content"),
                                     has_title |->
                                        Get(document_structure, "title", <<>>) # <<>>,
                                     tables |-> GroupLen(document_structure, "tables")]])
                         @@ files
                    /\ result' = [stage |-> "output", status |-> "completed"]

\* step 4 of run_translation_pipeline
OutputRun ==
    /\ pc = "styled"
    /\ OutputTool
    /\ pc' = "done"
    /\ UNCHANGED <<source, path, llm, disk, clock, sessions>>

\* the output tool called on its own
OutputCall ==
    /\ pc = "any"
    /\ OutputTool
    /\ UNCHANGED <<source, path, llm, disk, clock, sessions, pc>>

(***************************************************************************)
(* The pipeline on one source document: run_translation_pipeline calls the *)
(* four tools one after the other.                                         *)
(***************************************************************************)
Init ==
    /\ source \in Bodies
    /\ path = DocxPath
    /\ llm = NoLlm
    /\ disk = NoFaults
    /\ clock = 0
    /\ sessions = EmptyDict
    /\ pc = "start"
    /\ files = EmptyDict
    /\ document = <<>>
    /\ result = [stage |-> "none", status |-> "none"]

Next ==
    \/ ParserRun
    \/ TranslationRun
    \/ StyleRun
    \/ OutputRun

Spec == Init /\ [][Next]_vars

(***************************************************************************)
(* The reconstructor on a model handed to it directly: the session holds   *)
(* an output agent input whose elements need not come from the stages      *)
(* above, so a group may hold list items and an element may lack its index.*)
(***************************************************************************)
\* the groups the elements of such a model are put in
ReconGroups == {"title", "body_text", "list_items", "tables"}

\* the positions such an element can carry
ReconPositions == 0..1

\* the index of such an element: a position, None (null), or no key at all
ReconIndexes ==
    {[has |-> TRUE, val |-> v] : v \in ReconPositions \cup {None}}
    \cup {[has |-> FALSE, val |-> 0]}

\* the dict d with its index set as ix says
WithIndex(d, ix) ==
    IF ix.has THEN Put(d, "index", ix.val)
    ELSE [f \in DOMAIN d \ {"index"} |-> d[f]]

\* the element of place k of such a model, as the stages would have made it
ReconElement(group, k, ix) ==
    LET context == [source_language |-> "English", target_language |-> "Spanish",
                    document_type |-> "financial_report", translation_style |-> "formal"]
        rules == GetLanguageStyleRules("Spanish")
        semantic_type == CASE group = "title" -> "document_title"
                           [] group = "list_items" -> "list_item"
                           [] OTHER -> "body_text"
        item == ContentItem([text |-> <<Word(k)>>, paragraph_index |-> 0,
                             style |-> "Normal", semantic_type |-> semantic_type,
                             hierarchy_level |-> None, is_translatable |-> TRUE,
                             alignment |-> "left", runs |-> <<>>])
    IN IF group = "tables"
       THEN [table_styled |-> TRUE] @@
            TranslateTable(
                WithIndex([rows |-> << [cells |-> << [text |-> <<Word(k)>>,
                                                     paragraphs |-> <<>>] >>] >>,
                           index |-> 0], ix),
                context)
       ELSE IF group = "title"
       THEN WithIndex(ApplyStyleProfile("document_title",
                          TranslateDocumentTitle(item, context),
                          ProfessionalProfile, rules), ix)
       ELSE WithIndex(ApplyStyleProfile(semantic_type,
                          TranslateContentItem(item, context, group),
                          ProfessionalProfile, rules), ix)

\* the choices of group and index for the n elements of such a model
ReconChoices(n) == [0..(n - 1) -> ReconGroups \X ReconIndexes]

\* the elements of one group, in the order of their places
RECURSIVE ReconGroup(_, _, _, _)
ReconGroup(choice, group, k, n) ==
    IF k >= n THEN <<>>
    ELSE (IF choice[k][1] = group
          THEN <<ReconElement(group, k, choice[k][2])>> ELSE <<>>)
         \o ReconGroup(choice, group, k + 1, n)

\* the output agent input made of the chosen elements
ReconInput(choice, n) ==
    LET titles == ReconGroup(choice, "title", 0, n) IN
    [session_metadata |-> [ready_for_output_agent |-> TRUE],
     generation_context |-> [output_format |-> "docx", style_profile |-> "professional",
                             language |-> "Spanish"],
     document_structure |->
        [title |-> IF titles = <<>> THEN <<>> ELSE <<titles[Len(titles)]>>,
         headers |-> [main_headers |-> <<>>, sub_headers |-> <<>>],
         content |-> [body_text |-> ReconGroup(choice, "body_text", 0, n),
                      special_content |-> <<>>,
                      list_items |-> ReconGroup(choice, "list_items", 0, n)],
         tables |-> ReconGroup(choice, "tables", 0, n)],
     style_specifications |->
        [primary_font |-> "Arial",
         font_families |-> ProfessionalProfile.font_families,
         colors |-> ProfessionalProfile.colors,
         alignments |-> ProfessionalProfile.alignments,
         spacing |-> ProfessionalProfile.spacing]]

InitRecon ==
    /\ source = <<SectPr>>
    /\ path = DocxPath
    /\ llm = NoLlm
    /\ disk = NoFaults
    /\ clock = 0
    /\ sessions = EmptyDict
    /\ pc = "styled"
    /\ \E n \in 0..MaxModel : \E choice \in ReconChoices(n) :
          /\ Cardinality({k \in 0..(n - 1) : choice[k][1] = "title"}) <= 1
          /\ files = ("03_output_agent_input.json" :> ReconInput(choice, n))
    /\ document = <<>>
    /\ result = [stage |-> "none", status |-> "none"]

NextRecon == OutputRun

SpecRecon == InitRecon /\ [][NextRecon]_vars

(***************************************************************************)
(* A session whose tools are called on their own, in any order and any     *)
(* number of times (the crews of run_style_agent and run_output_agent, the *)
(* test scripts): the file may be missing or of any suffix, a provider may *)
(* be configured and its calls may fail.  The parser creates the session,  *)
(* the other tools are given its id.                                       *)
(***************************************************************************)
\* the words of the sources of such a session
SessionWords == {Word(i) : i \in 0..(MaxSession - 1)}

InitSession ==
    /\ \/ /\ path \in {[exists |-> TRUE, suffix |-> x] : x \in {".docx", ".DOCX"}}
          /\ source \in SessionBodies
       \/ /\ path = [exists |-> TRUE, suffix |-> ".txt"]
          /\ source \in TxtContents
       \/ /\ path \in {[exists |-> TRUE, suffix |-> x] : x \in {".pdf", ""}}
                      \cup {[exists |-> FALSE, suffix |-> x] : x \in Suffixes}
          /\ source = <<>>
    /\ llm \in LlmBehaviours(SessionWords)
    /\ disk = NoFaults
    /\ clock = 0
    /\ sessions = EmptyDict
    /\ pc = "any"
    /\ files = EmptyDict
    /\ document = <<>>
    /\ result = [stage |-> "none", status |-> "none"]

NextSession ==
    \/ ParserCall
    \/ TranslationCall
    \/ StyleCall
    \/ OutputCall

SpecSession == InitSession /\ [][NextSession]_vars

(***************************************************************************)
(* The style tool on a translated session of any formatting: the session   *)
(* holds a style agent input, as save_translation_output writes it, whose  *)
(* elements have any semantic kind, any alignment or none, and runs that   *)
(* are bold, plain, missing or not recorded at all.  The element of place  *)
(* 0 takes every such formatting; the ones behind it are centered or       *)
(* right-aligned and have no runs, or one plain run.                       *)
(***************************************************************************)
\* the semantic kinds the style tool styles
StyledKinds == {"document_title", "main_header", "sub_header",
                "body_text", "special_content"}

\* the alignment recorded for an element, "absent" when the key is missing
AlignmentChoices == {"absent", "left", "center", "right", "justify"}

\* the runs recorded for an element, "absent" when the key is missing
RunsChoices == {"absent", "none", "plain", "bold", "mixed"}

\* the kind, alignment and runs the element of place k may have
StyleElementChoices(k) ==
    IF k = 0 THEN StyledKinds \X AlignmentChoices \X RunsChoices
    ELSE {<<kind, f[1], f[2]>> :
             kind \in StyledKinds,
             f \in {<<"center", "none">>, <<"right", "none">>, <<"right", "plain">>}}

\* the choices for the n elements of such a session
StyleChoices(n) ==
    IF n = 0 THEN {EmptyDict}
    ELSE {(0 :> first) @@ rest :
            first \in StyleElementChoices(0),
            rest \in [1..(n - 1) -> StyleElementChoices(1)]}

\* a run as the parser records it
RecordedRun(text, bold) ==
    [text |-> text, bold |-> bold, italic |-> FALSE, underline |-> FALSE,
     font_name |-> "Default", font_size |-> "Default", font_color |-> "Default"]

\* the formatting dict of an element of the chosen alignment and runs
FormattingOf(alignment, runs, text) ==
    (IF alignment = "absent" THEN EmptyDict ELSE [alignment |-> alignment])
    @@
    (CASE runs = "absent" -> EmptyDict
       [] runs = "none" -> [runs |-> <<>>]
       [] runs = "plain" -> [runs |-> <<RecordedRun(text, FALSE)>>]
       [] runs = "bold" -> [runs |-> <<RecordedRun(text, TRUE)>>]
       [] OTHER -> [runs |-> <<RecordedRun(text, FALSE), RecordedRun(text, TRUE)>>])

\* the content item of place k, as the parser groups it
StyleItem(kind, alignment, runs, k) ==
    [text |-> <<Word(k)>>,
     index |-> k,
     style |-> "Normal",
     semantic_type |-> kind,
     hierarchy_level |-> CASE kind = "document_title" -> 0
                           [] kind = "main_header" -> 1
                           [] kind = "sub_header" -> 2
                           [] OTHER -> None,
     formatting |-> FormattingOf(alignment, runs, <<Word(k)>>)]

\* the items of one kind, in the order of their places
RECURSIVE StyleGroup(_, _, _, _)
StyleGroup(choice, kind, k, n) ==
    IF k >= n THEN <<>>
    ELSE (IF choice[k][1] = kind
          THEN <<StyleItem(kind, choice[k][2], choice[k][3], k)>> ELSE <<>>)
         \o StyleGroup(choice, kind, k + 1, n)

\* the translatable content made of the chosen elements
StyleTranslatable(choice, n) ==
    LET titles == StyleGroup(choice, "document_title", 0, n) IN
    [document_title |-> IF titles = <<>> THEN <<>> ELSE <<titles[1]>>,
     headers |-> [main_headers |-> StyleGroup(choice, "main_header", 0, n),
                  sub_headers |-> StyleGroup(choice, "sub_header", 0, n)],
     content |-> [body_text |-> StyleGroup(choice, "body_text", 0, n),
                  special_content |-> StyleGroup(choice, "special_content", 0, n)],
     tables |-> <<>>,
     translation_context |-> [document_type |-> "financial_report"]]

\* the style agent input the translation tool leaves for these elements
StyleInputOf(choice, n, target_language) ==
    StyleAgentInput(
        TranslateBySemanticType(
            StyleTranslatable(choice, n),
            [source_language |-> "English", target_language |-> target_language,
             document_type |-> "financial_report", translation_style |-> "formal"]))

InitStyle ==
    /\ source = <<SectPr>>
    /\ path = DocxPath
    /\ llm = NoLlm
    /\ disk = NoFaults
    /\ clock = 0
    /\ sessions = EmptyDict
    /\ pc = "translated"
    /\ \E n \in 0..MaxStyled :
       \E choice \in StyleChoices(n) :
       \E target_language \in TargetLanguages :
          /\ Cardinality({k \in 0..(n - 1) : choice[k][1] = "document_title"}) <= 1
          /\ files = ("02_style_agent_input.json" :>
                         StyleInputOf(choice, n, target_language))
    /\ document = <<>>
    /\ result = [stage |-> "none", status |-> "none"]

NextStyle ==
    \/ StyleRun
    \/ OutputRun

SpecStyle == InitStyle /\ [][NextStyle]_vars

(***************************************************************************)
(* The pipeline on a disk that fails: during any of the stages the output  *)
(* directory may be unwritable, so that the stage cannot save what it      *)
(* made.                                                                   *)
(***************************************************************************)
InitFaulty ==
    /\ source \in SessionBodies
    /\ path = DocxPath
    /\ llm = NoLlm
    /\ disk \in SUBSET Stages
    /\ clock = 0
    /\ sessions = EmptyDict
    /\ pc = "start"
    /\ files = EmptyDict
    /\ document = <<>>
    /\ result = [stage |-> "none", status |-> "none"]

NextFaulty ==
    \/ ParserRun
    \/ TranslationRun
    \/ StyleRun
    \/ OutputRun

SpecFaulty == InitFaulty /\ [][NextFaulty]_vars

(***************************************************************************)
(* Several parser runs on one output directory: each run makes its session *)
(* id from the name of its file and the time of the clock, and saves its   *)
(* artifacts in the directory of that id.  sessions is the output          *)
(* directory, files the session directory of the last run.                 *)
(***************************************************************************)
\* the names of the files handed to the parser
FileNames == {"a.docx", "b.docx"}

\* the documents of such files: one Normal paragraph
SessionDocs ==
    {<< [tag |-> "p", text |-> <<Word(i)>>, style |-> "Normal",
         alignment |-> "NONE", runs |-> <<>>], SectPr >> : i \in 0..1}

\* datetime.now().strftime("%Y%m%d_%H%M%S"): the time cut to the second
Timestamp(now) == now \div 2

\* hashlib.md5(content.encode()).hexdigest()[:12]: a function of the content,
\* taken as free of collisions
Md5Prefix(content) == content

\* generate_session_id
GenerateSessionId(file_name, now) ==
    LET timestamp == Timestamp(now)
        content == <<file_name, "_", timestamp>>
    IN [hash |-> Md5Prefix(content), timestamp |-> timestamp]

\* a parser run on a DOCX file of the given name and document
ParserStart(file_name, body) ==
    /\ pc = "sessions"
    /\ LET session_id == GenerateSessionId(file_name, clock)
           session_dir == Get(sessions, session_id, EmptyDict)
       IN /\ files' = SaveParserOutput(session_dir, ParseDocx(body))
          /\ sessions' = Put(sessions, session_id, files')
    /\ source' = body
    /\ result' = [stage |-> "parser", status |-> "parsed"]
    /\ UNCHANGED <<path, llm, disk, clock, pc, document>>

\* time passes
Tick ==
    /\ pc = "sessions"
    /\ clock < MaxClock
    /\ clock' = clock + 1
    /\ UNCHANGED <<source, path, llm, disk, sessions, pc, files, document, result>>

InitSessions ==
    /\ source = <<SectPr>>
    /\ path = DocxPath
    /\ llm = NoLlm
    /\ disk = NoFaults
    /\ clock = 0
    /\ sessions = EmptyDict
    /\ pc = "sessions"
    /\ files = EmptyDict
    /\ document = <<>>
    /\ result = [stage |-> "none", status |-> "none"]

NextSessions ==
    \/ \E file_name \in FileNames : \E body \in SessionDocs : ParserStart(file_name, body)
    \/ Tick

SpecSessions == InitSessions /\ [][NextSessions]_vars

(***************************************************************************)
(* What the properties speak of.                                           *)
(***************************************************************************)
\* the artifact files of the session
Parsed == files["01_parsed_structure.json"]

Translatable == files["01_translatable_content.json"]

Translated == files["02_translated_content.json"]

StyleInput == files["02_style_agent_input.json"].document_elements

Styled == files["03_output_agent_input.json"].document_structure

ParserDone == "01_parsed_structure.json" \in DOMAIN files

TranslationDone == "02_translated_content.json" \in DOMAIN files

StyleDone == "03_output_agent_input.json" \in DOMAIN files /\ pc \in {"styled", "done"}

OutputDone == pc = "done" /\ document # <<>>

\* the block nodes of the source body, without the section properties
Blocks == SubSeq(source, 1, Len(source) - 1)

HasText(t) == \E k \in 1..Len(t) : t[k] # " "

IsParagraph(b) == b.tag = "p"

IsTable(b) == b.tag = "tbl"

NonEmptyBlock(b) == IsTable(b) \/ (IsParagraph(b) /\ HasText(b.text))

MappedStyle(style) == style \in DOMAIN StyleSemanticMap

\* the tokens written in an item of a generated document
ItemTokens(item) ==
    IF item.kind = "table"
    THEN UNION {Range(item.rows[r][c].text) :
                    r \in 1..Len(item.rows), c \in 1..Len(item.rows[1])}
    ELSE UNION {Range(item.runs[k].text) : k \in 1..Len(item.runs)}

\* the places whose word is written in an item
ItemPlaces(item) == {i \in 0..(Len(Words) - 1) : Word(i) \in ItemTokens(item)}

\* the items of the generated document that carry the word of a place, in order
Emitted == SelectSeq(document[1], LAMBDA item : ItemPlaces(item) # {})

\* the places of the emitted items, in the order of the generated document
EmittedPlaces == [k \in 1..Len(Emitted) |-> CHOOSE i \in ItemPlaces(Emitted[k]) : TRUE]

\* where the block of place i stands in the generated document, 0 if nowhere
EmittedAt(i) ==
    IF \E k \in 1..Len(EmittedPlaces) : EmittedPlaces[k] = i
    THEN CHOOSE k \in 1..Len(EmittedPlaces) : EmittedPlaces[k] = i
    ELSE 0

Increasing(seq) == \A j, k \in 1..Len(seq) : j < k => seq[j] < seq[k]

\* the index values of a list of dicts
Indexes(items) == [k \in 1..Len(items) |-> Get(items[k], "index", None)]

\* the position a translated or styled table carries
TablePosition(table) == Get(Get(table, "original_table", EmptyDict), "index", None)

TablePositions(tables) == [k \in 1..Len(tables) |-> TablePosition(tables[k])]

\* a paragraph of the source with text
TextParagraph(b) == IsParagraph(b) /\ HasText(b.text)

\* the text of a source paragraph without its whitespace
WordsOf(text) == SelectSeq(text, LAMBDA token : token # " ")

\* all paragraphs and tables of the translatable content, group after group
TranslatableItems ==
    Translatable.document_title
    \o Translatable.headers.main_headers \o Translatable.headers.sub_headers
    \o Translatable.content.body_text \o Translatable.content.special_content
    \o Translatable.content.list_items \o Translatable.content.quotes
    \o Translatable.content.captions
    \o Translatable.tables

\* the positions of the translatable content
TranslatablePositions == Range(Indexes(TranslatableItems))

\* the positions of the translated content
TranslatedPositions ==
    Range(Indexes(Translated.document_title
                  \o Translated.headers.main_headers \o Translated.headers.sub_headers
                  \o Translated.content.body_text \o Translated.content.special_content
                  \o Translated.content.list_items \o Translated.content.quotes
                  \o Translated.content.captions))
    \cup Range(TablePositions(Translated.tables))

(***************************************************************************)
(* C1 - code_bug.  For a source of non-empty paragraphs with mapped styles *)
(* and no table, the generated document holds the paragraphs in the        *)
(* relative order of the source; a title paragraph that is not the first   *)
(* paragraph stays at its place.  Stated as claimed; the code adds the     *)
(* title before everything else.                                           *)
(***************************************************************************)
C1_SourceOrderKept ==
    ( /\ OutputDone
      /\ \A k \in 1..Len(Blocks) :
            TextParagraph(Blocks[k]) /\ MappedStyle(Blocks[k].style) )
    => Increasing(EmittedPlaces)

(***************************************************************************)
(* C2 - code_bug.  For a source of a paragraph, a table and a paragraph    *)
(* (places 0, 1, 2) the generated document holds the table between the two *)
(* paragraphs.  Stated as claimed, for body text paragraphs; the code      *)
(* sorts the table behind the second paragraph.                            *)
(***************************************************************************)
C2_TableBetweenParagraphs ==
    ( /\ OutputDone
      /\ Len(Blocks) = 3
      /\ TextParagraph(Blocks[1]) /\ Blocks[1].style = "Normal"
      /\ IsTable(Blocks[2])
      /\ TextParagraph(Blocks[3]) /\ Blocks[3].style = "Normal" )
    => EmittedPlaces = <<0, 1, 2>>

(***************************************************************************)
(* C3 - code_bug.  In the translatable content saved by the parser the     *)
(* index values of all paragraphs and tables are pairwise distinct, and    *)
(* the index of a paragraph is the position _parse_docx gave it.  Stated   *)
(* as claimed; the code numbers the paragraphs by their place in the list  *)
(* of paragraphs and the tables by their place in the body.                *)
(***************************************************************************)
C3_PositionsDistinct ==
    ParserDone =>
        /\ \A j, k \in 1..Len(TranslatableItems) :
              j # k => TranslatableItems[j].index # TranslatableItems[k].index
        /\ \A k \in 1..Len(TranslatableItems) :
              "text" \in DOMAIN TranslatableItems[k] =>
                 \E j \in 1..Len(Parsed.paragraphs) :
                    /\ Parsed.paragraphs[j].text = TranslatableItems[k].text
                    /\ Parsed.paragraphs[j].index = TranslatableItems[k].index

(***************************************************************************)
(* C4 - code_bug.  The style stage neither adds nor drops nor reorders:    *)
(* every group of its input (title, main headers, sub headers, each        *)
(* content group, tables) has in its output the same elements with the     *)
(* same kinds and positions.  Stated as claimed; the code styles only the  *)
(* groups body_text and special_content of the content.                    *)
(***************************************************************************)
C4_StyleKeepsGroups ==
    StyleDone =>
        LET SameGroup(in, out) ==
                /\ Indexes(in) = Indexes(out)
                /\ \A k \in 1..Len(in) :
                      Get(in[k], "semantic_type", "") = Get(out[k], "semantic_type", "")
        IN /\ SameGroup(StyleInput.title, Styled.title)
           /\ \A g \in {"main_headers", "sub_headers"} :
                 SameGroup(Get(StyleInput.headers, g, <<>>), Get(Styled.headers, g, <<>>))
           /\ \A g \in ContentTypes :
                 SameGroup(Get(StyleInput.content_blocks, g, <<>>),
                           Get(Styled.content, g, <<>>))
           /\ TablePositions(StyleInput.tables) = TablePositions(Styled.tables)

(***************************************************************************)
(* C5 - confirmed.  The translation stage keeps the shape of the model:    *)
(* every group of the translatable content has in the translated content   *)
(* as many items in the same order, each with the index, semantic type and *)
(* formatting of its input item (a table carries its input table, index    *)
(* included), so the positions of the output are those of the input.       *)
(***************************************************************************)
C5_TranslationKeepsShape ==
    TranslationDone =>
        LET SameItems(in, out) ==
                /\ Len(in) = Len(out)
                /\ \A k \in 1..Len(in) :
                      /\ out[k].original_text = in[k].text
                      /\ out[k].index = in[k].index
                      /\ out[k].semantic_type = in[k].semantic_type
                      /\ out[k].formatting = in[k].formatting
        IN /\ SameItems(Translatable.document_title, Translated.document_title)
           /\ \A g \in {"main_headers", "sub_headers"} :
                 SameItems(Translatable.headers[g], Translated.headers[g])
           /\ DOMAIN Translated.content = DOMAIN Translatable.content
           /\ \A g \in DOMAIN Translatable.content :
                 SameItems(Translatable.content[g], Translated.content[g])
           /\ Len(Translated.tables) = Len(Translatable.tables)
           /\ \A k \in 1..Len(Translatable.tables) :
                 /\ Translated.tables[k].original_table = Translatable.tables[k]
                 /\ TablePosition(Translated.tables[k]) = Translatable.tables[k].index
           /\ TranslatedPositions = TranslatablePositions

\* the case of C5: two body paragraphs in order, and a table
C5_Witness ==
    /\ TranslationDone
    /\ Len(Translated.content.body_text) >= 2
    /\ Len(Translated.tables) >= 1

(***************************************************************************)
(* C6 - code_bug.  No element is dropped for its style: a non-empty        *)
(* paragraph whose style the mapping does not know is written in the       *)
(* generated document.  Stated as claimed; the code puts a paragraph of    *)
(* semantic type unknown in no group of the translatable content.          *)
(***************************************************************************)
C6_UnknownStyleEmitted ==
    OutputDone =>
        \A k \in 1..Len(Blocks) :
            (TextParagraph(Blocks[k]) /\ ~MappedStyle(Blocks[k].style))
            => EmittedAt(k - 1) # 0

\* the kinds role assignment gives
SemanticTypes ==
    {"document_title", "main_header", "sub_header", "body_text", "special_content",
     "list_item", "quote", "caption", "unknown"}

\* every paragraph with text was extracted and has exactly one kind
EveryParagraphHasKind ==
    /\ Len(Parsed.paragraphs) = Len(SelectSeq(Blocks, TextParagraph))
    /\ \A k \in 1..Len(Parsed.paragraphs) :
          /\ "semantic_type" \in DOMAIN Parsed.paragraphs[k]
          /\ Parsed.paragraphs[k].semantic_type \in SemanticTypes
          /\ MappedStyle(Parsed.paragraphs[k].style)
             => Parsed.paragraphs[k].semantic_type
                = StyleSemanticMap[Parsed.paragraphs[k].style].type

\* the paragraphs of unmapped style are extracted with this kind, no level, translatable
UnmappedExtractedAs(kind) ==
    \A k \in 1..Len(Parsed.paragraphs) :
        ~MappedStyle(Parsed.paragraphs[k].style) =>
            /\ Parsed.paragraphs[k].semantic_type = kind
            /\ Parsed.paragraphs[k].hierarchy_level = None
            /\ Parsed.paragraphs[k].is_translatable = TRUE

(***************************************************************************)
(* C7 - corrected.  Role assignment is total: every paragraph with text,   *)
(* whatever its style, is extracted with exactly one kind; a paragraph     *)
(* whose style is not in the mapping is extracted with kind unknown (not   *)
(* body_text), hierarchy level null and translatable = true.               *)
(***************************************************************************)
C7_RoleAssignmentTotal ==
    ParserDone => (EveryParagraphHasKind /\ UnmappedExtractedAs("unknown"))

\* C7 as claimed: the paragraph of unmapped style is extracted as body_text
C7_UnmappedIsBodyText ==
    ParserDone => (EveryParagraphHasKind /\ UnmappedExtractedAs("body_text"))

\* the case of C7: a paragraph of unmapped style was extracted
C7_Witness ==
    /\ ParserDone
    /\ \E k \in 1..Len(Parsed.paragraphs) : ~MappedStyle(Parsed.paragraphs[k].style)

\* the elements of the model handed to the reconstructor, group after group,
\* a table with the index of its original table
ModelElements ==
    Styled.title
    \o Get(Styled.headers, "main_headers", <<>>) \o Get(Styled.headers, "sub_headers", <<>>)
    \o Get(Styled.content, "body_text", <<>>) \o Get(Styled.content, "special_content", <<>>)
    \o Get(Styled.content, "list_items", <<>>) \o Get(Styled.content, "quotes", <<>>)
    \o Get(Styled.content, "captions", <<>>)
    \o [k \in 1..Len(Styled.tables) |-> CollectTable(Styled.tables[k])]

\* the words of an element of the model
ElementTokens(element) ==
    IF "original_table" \in DOMAIN element
    THEN UNION {Range(element.original_table.rows[r].cells[c].text) :
                    r \in 1..Len(element.original_table.rows),
                    c \in 1..Len(element.original_table.rows[1].cells)}
    ELSE Range(element.original_text)

\* the position of the element of the model whose word is that of place i
PositionOfPlace(i) ==
    LET k == CHOOSE k \in 1..Len(ModelElements) : Word(i) \in ElementTokens(ModelElements[k])
    IN Get(ModelElements[k], "index", None)

\* has the element no position: no index key, or the index None
LacksPosition(element) == Get(element, "index", None) = None

(***************************************************************************)
(* C8 - code_bug.  The reconstructor emits every element of every group of *)
(* the model it is given: as many items as the model has elements, in      *)
(* ascending order of position.  Stated as claimed; the code collects only *)
(* the headers, body_text, special_content and the tables, and writes the  *)
(* title first.                                                            *)
(***************************************************************************)
C8_EveryElementEmitted ==
    (OutputDone /\ \A k \in 1..Len(ModelElements) : ~LacksPosition(ModelElements[k]))
    => /\ Len(Emitted) = Len(ModelElements)
       /\ \A j, k \in 1..Len(EmittedPlaces) :
             j < k => PositionOfPlace(EmittedPlaces[j]) <= PositionOfPlace(EmittedPlaces[k])

\* the non-empty block nodes of the source, in order
NonEmptyBlocks == SelectSeq(Blocks, NonEmptyBlock)

\* is the block found among the extracted elements, with this position
ExtractedAt(b, position) ==
    IF IsTable(b)
    THEN \E k \in 1..Len(Parsed.tables) :
            /\ Parsed.tables[k].index = position
            /\ Parsed.tables[k].rows[1].cells[1].text = b.rows[1].cells[1].text
    ELSE \E k \in 1..Len(Parsed.paragraphs) :
            /\ Parsed.paragraphs[k].index = position
            /\ Parsed.paragraphs[k].text = WordsOf(b.text)

(***************************************************************************)
(* C9 - confirmed.  _parse_docx extracts as many elements (paragraphs plus *)
(* tables) as the source has non-empty block nodes; a paragraph without    *)
(* text gives no element and takes no position: the n-th non-empty block   *)
(* (from 0) is extracted with position n, so the positions are 0..n-1 in   *)
(* source order without gaps.                                              *)
(***************************************************************************)
C9_ExtractionCountsNonEmpty ==
    ParserDone =>
        /\ Len(Parsed.paragraphs) + Len(Parsed.tables) = Len(NonEmptyBlocks)
        /\ \A n \in 1..Len(NonEmptyBlocks) : ExtractedAt(NonEmptyBlocks[n], n - 1)
        /\ Range(Indexes(Parsed.paragraphs)) \cup Range(Indexes(Parsed.tables))
           = 0..(Len(NonEmptyBlocks) - 1)

\* the case of C9: a paragraph without text stands before a table and a paragraph
C9_Witness ==
    /\ ParserDone
    /\ Len(Blocks) = 3
    /\ IsParagraph(Blocks[1]) /\ ~HasText(Blocks[1].text)
    /\ IsTable(Blocks[2])
    /\ TextParagraph(Blocks[3])

(***************************************************************************)
(* C10 - code_bug.  Given a model with an element (paragraph or table)     *)
(* that has no position, the reconstructor fails with an error and emits   *)
(* no document.  Stated as claimed; the code sorts an element without      *)
(* index key at position 0 and writes it.                                  *)
(***************************************************************************)
C10_MissingPositionFailsFast ==
    ( /\ pc = "done"
      /\ \E k \in 1..Len(ModelElements) : LacksPosition(ModelElements[k]) )
    => (result.status = "error" /\ document = <<>>)

\* the title, headers and content items of the translated content, group after group
TranslatedParagraphs ==
    Translated.document_title
    \o Translated.headers.main_headers \o Translated.headers.sub_headers
    \o Translated.content.body_text \o Translated.content.special_content
    \o Translated.content.list_items \o Translated.content.quotes
    \o Translated.content.captions

\* the language the saved translation was made to
TranslatedLanguage == Translated.translation_metadata.target_language

\* the last tool called was the translation tool and it found its input
TranslationRan ==
    result.stage = "translation" /\ "01_translatable_content.json" \in DOMAIN files

\* the text a successful call gives for a source text: the response of the
\* collaborator without its label and the whitespace around it
ReplyText(text, language) ==
    IF llm.reply = "marked" THEN <<"[", Upper(language), "]", " ">> \o text
    ELSE <<"tr", " ">> \o text

\* was the external call made for this item, and did it fail
Degraded(item) == llm.configured /\ LlmFails(item.original_text)

(***************************************************************************)
(* C11 - confirmed.  A failing external translation call does not abort    *)
(* the translation stage: a run that found its input ends completed with   *)
(* its three artifacts saved; the element whose call failed has as         *)
(* translated_text the marked fallback "[" + upper-case target language +  *)
(* "] " + its original text, and every element whose call succeeded has    *)
(* the text the collaborator gave.                                         *)
(***************************************************************************)
C11_FailedCallFallsBack ==
    /\ TranslationRan =>
          /\ result.status = "translation_completed"
          /\ {"02_translated_content.json", "02_translation_summary.json",
              "02_style_agent_input.json"} \subseteq DOMAIN files
    /\ TranslationDone =>
          /\ Len(TranslatedParagraphs) = Len(TranslatableItems) - Len(Translatable.tables)
          /\ \A k \in 1..Len(TranslatedParagraphs) :
                LET item == TranslatedParagraphs[k] IN
                /\ Degraded(item) =>
                      item.translated_text
                      = <<"[", Upper(TranslatedLanguage), "]", " ">> \o item.original_text
                /\ (llm.configured /\ ~Degraded(item)) =>
                      item.translated_text = ReplyText(item.original_text, TranslatedLanguage)

\* the case of C11: of two elements the call failed for one and succeeded for
\* the other, and the stage completed
C11_Witness ==
    /\ TranslationRan /\ TranslationDone
    /\ result.status = "translation_completed"
    /\ llm.reply = "plain"
    /\ \E j, k \in 1..Len(TranslatedParagraphs) :
          /\ Degraded(TranslatedParagraphs[j])
          /\ ~Degraded(TranslatedParagraphs[k])

\* the fields of a translated item that hold the element itself
ContentFields ==
    {"original_text", "translated_text", "index", "style", "formatting",
     "semantic_type", "hierarchy_level"}

\* the flags and notes of a translated item: all its other fields
NoteFields(item) == [f \in DOMAIN item \ ContentFields |-> item[f]]

(***************************************************************************)
(* C12 - code_bug.  After a translation run in which the call failed for   *)
(* some elements, the saved translated content tells the degraded elements *)
(* from the translated ones: translation_notes of the result has an entry, *)
(* or the flags and notes of a degraded element differ from those of every *)
(* translated element of its kind.  Stated as claimed; the code writes the *)
(* same notes for both and leaves translation_notes empty.                 *)
(***************************************************************************)
C12_DegradedElementsRecorded ==
    (TranslationDone /\ llm.configured) =>
        \A j \in 1..Len(TranslatedParagraphs) :
            Degraded(TranslatedParagraphs[j]) =>
                \/ Translated.translation_notes # <<>>
                \/ \A k \in 1..Len(TranslatedParagraphs) :
                      ( /\ ~Degraded(TranslatedParagraphs[k])
                        /\ TranslatedParagraphs[k].semantic_type
                           = TranslatedParagraphs[j].semantic_type )
                      => NoteFields(TranslatedParagraphs[j])
                         # NoteFields(TranslatedParagraphs[k])

\* the input artifact a stage loads
InputArtifact ==
    [translation |-> "01_translatable_content.json",
     style |-> "02_style_agent_input.json",
     output |-> "03_output_agent_input.json"]

\* the session lacks the input artifact of the stage
InputMissing(stage) == InputArtifact[stage] \notin DOMAIN files

\* the step ends with an error result and leaves the session directory, the
\* manifest in it and the generated document as they were
FailsWritingNothing ==
    /\ result'.status = "error"
    /\ files' = files
    /\ document' = document

(***************************************************************************)
(* C13 - confirmed.  A run of the translation, style or output tool on a   *)
(* session that lacks the input artifact of the stage                      *)
(* (01_translatable_content.json, 02_style_agent_input.json,               *)
(* 03_output_agent_input.json) ends with an error result, writes no        *)
(* artifact and does not change the session manifest.                      *)
(***************************************************************************)
C13_MissingInputIsError ==
    [][ /\ (TranslationCall /\ InputMissing("translation")) => FailsWritingNothing
        /\ (StyleCall /\ InputMissing("style")) => FailsWritingNothing
        /\ (OutputCall /\ InputMissing("output")) => FailsWritingNothing ]_vars

\* the case of C13: in a session the parser made, the output tool was called
\* before the style tool had run, and returned an error
C13_Witness ==
    /\ ParserDone
    /\ "session_manifest.json" \in DOMAIN files
    /\ InputMissing("output")
    /\ result = [stage |-> "output", status |-> "error"]

\* the file handed to the parser does not exist, or is neither DOCX nor TXT
Unsupported == ~path.exists \/ LowerSuffix(path.suffix) \notin {".docx", ".txt"}

(***************************************************************************)
(* C14 - confirmed.  For a file that does not exist or whose suffix is     *)
(* neither .docx nor .txt, every run of the parser ends with an error      *)
(* result, and no session directory, artifact file or manifest exists      *)
(* afterwards: no model of the document is emitted, not even in part.      *)
(***************************************************************************)
C14_UnsupportedFileIsError ==
    Unsupported =>
        /\ result.stage = "parser" => result.status = "error"
        /\ files = EmptyDict
        /\ document = <<>>

\* the case of C14: the parser was run on such a file
C14_Witness ==
    /\ Unsupported
    /\ path.exists
    /\ result = [stage |-> "parser", status |-> "error"]

\* the artifact files of the stages
ParserArtifacts ==
    {"01_parsed_structure.json", "01_semantic_structure.json",
     "01_translatable_content.json"}

TranslationArtifacts ==
    {"02_translated_content.json", "02_translation_summary.json",
     "02_style_agent_input.json"}

StyleArtifacts ==
    {"03_styled_content.json", "03_style_summary.json", "03_output_agent_input.json"}

OutputArtifacts == {"04_generation_summary.json", "04_qa_agent_input.json"}

\* the files of the session directory the step created or wrote differently
Changed ==
    {f \in DOMAIN files \cup DOMAIN files' :
        \/ f \notin DOMAIN files
        \/ f \notin DOMAIN files'
        \/ files[f] # files'[f]}

(***************************************************************************)
(* C15 - confirmed.  No stage changes the output of a stage before it: a   *)
(* run of the translation tool leaves the 01_ artifacts as they were, a    *)
(* run of the style tool the 01_ and 02_ artifacts, a run of the output    *)
(* tool the 01_, 02_ and 03_ artifacts; the only files a run creates or    *)
(* rewrites are the artifacts of its own stage (and, for the output tool,  *)
(* the generated document) and the session manifest, which is no model of  *)
(* the document.                                                           *)
(***************************************************************************)
C15_EarlierArtifactsKept ==
    [][ /\ TranslationCall =>
              /\ Changed \subseteq TranslationArtifacts \cup {"session_manifest.json"}
              /\ document' = document
        /\ StyleCall =>
              /\ Changed \subseteq StyleArtifacts \cup {"session_manifest.json"}
              /\ document' = document
        /\ OutputCall =>
              Changed \subseteq OutputArtifacts \cup {"session_manifest.json"} ]_vars

\* the case of C15: every stage has run on the session, the translation
\* stage last, and the artifacts of all stages exist
C15_Witness ==
    /\ result = [stage |-> "translation", status |-> "translation_completed"]
    /\ (ParserArtifacts \cup TranslationArtifacts \cup StyleArtifacts
        \cup OutputArtifacts) \subseteq DOMAIN files
    /\ document # <<>>

\* the tables of the source body, in order
SourceTables == SelectSeq(Blocks, IsTable)

\* the tables of the generated document, in order
EmittedTables == SelectSeq(document[1], LAMBDA item : item.kind = "table")

\* the texts of the cells of a table of dicts, row by row
CellTexts(rows) ==
    [r \in 1..Len(rows) |-> [c \in 1..Len(rows[r].cells) |-> rows[r].cells[c].text]]

\* the texts of the cells of a table of the generated document, row by row
EmittedCellTexts(table) ==
    [r \in 1..Len(table.rows) |-> [c \in 1..Len(table.rows[r]) |-> table.rows[r][c].text]]

(***************************************************************************)
(* C16 - code_bug.  A table is atomic: the tables of the source are found  *)
(* in the parsed, translated and styled model and in the generated         *)
(* document in the same number and order, each with all its rows from top  *)
(* to bottom and in each row all its cells from left to right with their   *)
(* text.  Stated as claimed; the code writes of every row only as many     *)
(* cells as the first row has.                                             *)
(***************************************************************************)
C16_TablesAtomic ==
    OutputDone =>
        /\ Len(Parsed.tables) = Len(SourceTables)
        /\ Len(Translated.tables) = Len(SourceTables)
        /\ Len(Styled.tables) = Len(SourceTables)
        /\ Len(EmittedTables) = Len(SourceTables)
        /\ \A k \in 1..Len(SourceTables) :
              /\ CellTexts(Parsed.tables[k].rows) = CellTexts(SourceTables[k].rows)
              /\ CellTexts(Translated.tables[k].original_table.rows)
                 = CellTexts(SourceTables[k].rows)
              /\ CellTexts(Styled.tables[k].original_table.rows)
                 = CellTexts(SourceTables[k].rows)
              /\ EmittedCellTexts(EmittedTables[k]) = CellTexts(SourceTables[k].rows)

\* the styled paragraphs of the session, each group with the element type
\* _run styles it as
StyledGroups ==
    << [type |-> "document_title", items |-> Get(Styled, "title", <<>>)],
       [type |-> "main_header",
        items |-> Get(Get(Styled, "headers", EmptyDict), "main_headers", <<>>)],
       [type |-> "sub_header",
        items |-> Get(Get(Styled, "headers", EmptyDict), "sub_headers", <<>>)],
       [type |-> "body_text",
        items |-> Get(Get(Styled, "content", EmptyDict), "body_text", <<>>)],
       [type |-> "special_content",
        items |-> Get(Get(Styled, "content", EmptyDict), "special_content", <<>>)] >>

\* the styled paragraphs of the session, each with the element type _run
\* styles it as
RECURSIVE StyledFrom(_)
StyledFrom(g) ==
    IF g > Len(StyledGroups) THEN <<>>
    ELSE [k \in 1..Len(StyledGroups[g].items) |->
             [type |-> StyledGroups[g].type, element |-> StyledGroups[g].items[k]]]
         \o StyledFrom(g + 1)

StyledParagraphs == StyledFrom(1)

\* the language rules the style stage worked with
StyledLanguageRules ==
    GetLanguageStyleRules(files["03_output_agent_input.json"].generation_context.language)

\* the alignment the element had before styling
OriginalAlignment(e) == Get(Get(e, "formatting", EmptyDict), "alignment", "left")

\* the runs the element had before styling
OriginalRuns(e) == Get(Get(e, "formatting", EmptyDict), "runs", <<>>)

(* C17 - confirmed.  Styling is idempotent: for every styled element, of    *)
(* every kind, applying _apply_style_profile once more with the same        *)
(* profile and the same language rules gives the element back unchanged     *)
(* (same styled_formatting: alignment, spacing and runs with their bold,    *)
(* font, size and color).                                                   *)
C17_StylingIdempotent ==
    StyleDone =>
        (\A p \in 1..Len(StyledParagraphs) :
            LET t == StyledParagraphs[p].type
                e == StyledParagraphs[p].element
            IN
            LET again == ApplyStyleProfile(t, e, ProfessionalProfile, StyledLanguageRules)
            IN /\ again.styled_formatting = e.styled_formatting
               /\ again = e)

\* a styled paragraph that had two runs and was not centered: styling changed
\* its alignment and its runs, and is applied to it again
C17_Witness ==
    /\ StyleDone
    /\ (\E p \in 1..Len(StyledParagraphs) :
            LET t == StyledParagraphs[p].type
                e == StyledParagraphs[p].element
            IN
            /\ t = "body_text"
            /\ OriginalAlignment(e) = "right"
            /\ Len(OriginalRuns(e)) = 2
            /\ e.styled_formatting.alignment = "justify"
            /\ Len(e.styled_formatting.runs) = 2
            /\ e.styled_formatting.runs # OriginalRuns(e))

(* C18 - code_bug.  Every element, of any kind (main headers and sub        *)
(* headers included), whose original alignment was center has alignment     *)
(* center after the style stage.                                            *)
C18_CenteredStaysCentered ==
    StyleDone =>
        (\A p \in 1..Len(StyledParagraphs) :
            LET t == StyledParagraphs[p].type
                e == StyledParagraphs[p].element
            IN
            OriginalAlignment(e) = "center" => e.styled_formatting.alignment = "center")

(* C19 - confirmed.  After styling the title is center-aligned whatever its *)
(* original alignment, and a body paragraph that was originally centered is *)
(* still centered, the default text alignment of the language rules being   *)
(* "justify".                                                               *)
C19_TitleAndCenteredBodyCentered ==
    StyleDone =>
        /\ StyledLanguageRules.text_alignment_default = "justify"
        /\ (\A p \in 1..Len(StyledParagraphs) :
            LET t == StyledParagraphs[p].type
                e == StyledParagraphs[p].element
            IN
               /\ t = "document_title" =>
                      /\ e.styled_formatting.alignment = "center"
                      /\ \A default \in {"left", "center", "right", "justify"} :
                            StyledAlignment(t, Get(e, "formatting", EmptyDict),
                                [StyledLanguageRules EXCEPT
                                    !.text_alignment_default = default]) = "center"
               /\ (t = "body_text" /\ OriginalAlignment(e) = "center")
                      => e.styled_formatting.alignment = "center")

\* a title that was right-aligned and a body paragraph that was centered have
\* been styled
C19_Witness ==
    /\ StyleDone
    /\ (\E p \in 1..Len(StyledParagraphs) :
            LET t == StyledParagraphs[p].type
                e == StyledParagraphs[p].element
            IN
            /\ t = "document_title"
            /\ OriginalAlignment(e) = "right"
            /\ e.styled_formatting.alignment = "center")
    /\ (\E p \in 1..Len(StyledParagraphs) :
            LET t == StyledParagraphs[p].type
                e == StyledParagraphs[p].element
            IN
            /\ t = "body_text"
            /\ OriginalAlignment(e) = "center"
            /\ e.styled_formatting.alignment = "center")

\* the element types whose runs are made bold
BoldTypes == {"document_title", "main_header", "sub_header"}

\* the paragraphs of the generated document written for a styled element
WrittenFor(e) ==
    {j \in 1..Len(document[1]) :
        /\ document[1][j].kind = "paragraph"
        /\ Range(e.original_text) \cap ItemTokens(document[1][j]) # {}}

\* every run written in item j of the generated document is bold, and there
\* is one
WrittenBold(j) ==
    /\ document[1][j].runs # <<>>
    /\ \A k \in 1..Len(document[1][j].runs) :
          Get(document[1][j].runs[k].font, "bold", FALSE)

(* C20 - confirmed.  After styling every run of a title, main header or sub *)
(* header is bold, whether the source runs were bold or not and also when   *)
(* the source element had no runs, and the paragraph the reconstructor      *)
(* writes for such an element is written bold.                              *)
C20_HeadersBold ==
    StyleDone =>
        (\A p \in 1..Len(StyledParagraphs) :
            LET t == StyledParagraphs[p].type
                e == StyledParagraphs[p].element
            IN
            t \in BoldTypes =>
                /\ \A k \in 1..Len(e.styled_formatting.runs) :
                      e.styled_formatting.runs[k].bold
                /\ "runs" \notin DOMAIN Get(e, "formatting", EmptyDict)
                      => Len(e.styled_formatting.runs) = 1
                /\ OutputDone =>
                      /\ WrittenFor(e) # {}
                      /\ \A j \in WrittenFor(e) : WrittenBold(j))

\* a main header whose only source run was not bold and a header or title
\* whose source had no runs have been styled and written
C20_Witness ==
    /\ OutputDone
    /\ (\E p \in 1..Len(StyledParagraphs) :
            LET t == StyledParagraphs[p].type
                e == StyledParagraphs[p].element
            IN
            /\ t = "main_header"
            /\ Len(OriginalRuns(e)) = 1
            /\ ~OriginalRuns(e)[1].bold
            /\ e.styled_formatting.runs[1].bold
            /\ \E j \in WrittenFor(e) : WrittenBold(j))
    /\ (\E p \in 1..Len(StyledParagraphs) :
            LET t == StyledParagraphs[p].type
                e == StyledParagraphs[p].element
            IN
            /\ t \in BoldTypes
            /\ OriginalRuns(e) = <<>>
            /\ e.styled_formatting.runs = <<>>
            /\ \E j \in WrittenFor(e) : WrittenBold(j))

\* no run the element had before styling was bold
SourceNotBold(e) == \A k \in 1..Len(OriginalRuns(e)) : ~Get(OriginalRuns(e)[k], "bold", FALSE)

(* C21 - confirmed.  After styling with the professional profile a main     *)
(* header that was not originally centered is left-aligned and bold, and a  *)
(* body paragraph that was not originally centered and whose source runs    *)
(* are not bold is justify-aligned and not bold, whatever its original      *)
(* alignment (left, right or justify).                                      *)
C21_ProfessionalHeaderAndBody ==
    StyleDone =>
        (\A p \in 1..Len(StyledParagraphs) :
            LET t == StyledParagraphs[p].type
                e == StyledParagraphs[p].element
            IN
            /\ e.style_profile = "professional"
            /\ (t = "main_header" /\ OriginalAlignment(e) # "center") =>
                   /\ e.styled_formatting.alignment = "left"
                   /\ \A k \in 1..Len(e.styled_formatting.runs) :
                         e.styled_formatting.runs[k].bold
            /\ (t = "body_text" /\ OriginalAlignment(e) # "center" /\ SourceNotBold(e)) =>
                   /\ e.styled_formatting.alignment = "justify"
                   /\ \A k \in 1..Len(e.styled_formatting.runs) :
                         ~e.styled_formatting.runs[k].bold)

\* a right-aligned main header and a right-aligned body paragraph, each with
\* one plain run, have been styled
C21_Witness ==
    /\ StyleDone
    /\ (\E p \in 1..Len(StyledParagraphs) :
            LET t == StyledParagraphs[p].type
                e == StyledParagraphs[p].element
            IN
            /\ t = "main_header"
            /\ OriginalAlignment(e) = "right"
            /\ Len(e.styled_formatting.runs) = 1
            /\ SourceNotBold(e)
            /\ e.styled_formatting.alignment = "left")
    /\ (\E p \in 1..Len(StyledParagraphs) :
            LET t == StyledParagraphs[p].type
                e == StyledParagraphs[p].element
            IN
            /\ t = "body_text"
            /\ OriginalAlignment(e) = "right"
            /\ Len(e.styled_formatting.runs) = 1
            /\ e.styled_formatting.alignment = "justify")

\* the paragraphs of the generated document, in order
WrittenParagraphs == SelectSeq(document[1], LAMBDA item : item.kind = "paragraph")

(* C22 - code_bug.  The reconstructor emits exactly one paragraph per       *)
(* non-table element of the styled model and no additional paragraph, each  *)
(* written for the element of the same rank (title first); so the document  *)
(* {title, main header, body} gives exactly 3 paragraphs, in that order.    *)
C22_OneParagraphPerElement ==
    OutputDone =>
        /\ Len(WrittenParagraphs) = Len(StyledParagraphs)
        /\ \A p \in 1..Len(StyledParagraphs) :
              p <= Len(WrittenParagraphs)
              /\ Range(StyledParagraphs[p].element.original_text)
                     \cap ItemTokens(WrittenParagraphs[p]) # {}

\* the manifest of the session says the stage has completed
ManifestSays(flag) ==
    /\ "session_manifest.json" \in DOMAIN files
    /\ Get(files["session_manifest.json"], flag, FALSE)

(* C23 - confirmed.  In whatever order the stage tools are called (out of   *)
(* order, repeatedly, after an earlier stage failed): a step generates a    *)
(* document only when the style stage had completed for the session, a      *)
(* step writes style artifacts only when 02_style_agent_input.json had been *)
(* saved, and a step writes translation artifacts only when                 *)
(* 01_translatable_content.json had been saved.                             *)
C23_StagesInOrder ==
    [][ /\ document' # document =>
              /\ "03_output_agent_input.json" \in DOMAIN files
              /\ ManifestSays("style_agent_completed")
        /\ Changed \cap StyleArtifacts # {} =>
              "02_style_agent_input.json" \in DOMAIN files
        /\ Changed \cap TranslationArtifacts # {} =>
              "01_translatable_content.json" \in DOMAIN files ]_vars

\* the style tool was called on a parsed session before the translation tool
\* and wrote nothing
C23_Witness ==
    /\ ParserDone
    /\ result = [stage |-> "style", status |-> "error"]
    /\ DOMAIN files \cap (TranslationArtifacts \cup StyleArtifacts) = {}
    /\ document = <<>>

(* C24 - code_bug.  In run_translation_pipeline, when the translation,      *)
(* style or output stage returns an error result, the driver does not start *)
(* the following stage and does not report the run as completed             *)
(* successfully: it returns as it does for a document that failed to parse  *)
(* (pc "failed"), it does not go on to the next step or to "done".          *)
C24_DriverStopsOnError ==
    [][ ((TranslationRun \/ StyleRun \/ OutputRun) /\ result'.status = "error")
            => pc' = "failed" ]_vars

(* C26 - code_bug.  The translation stage returns a result with             *)
(* translation_completed = true only if its output was persisted, that is   *)
(* only if 02_translated_content.json and 02_style_agent_input.json were    *)
(* written for the session.                                                 *)
C26_CompletedOnlyIfPersisted ==
    [][ (TranslationRun /\ result'.status = "translation_completed")
            => {"02_translated_content.json", "02_style_agent_input.json"}
                   \subseteq DOMAIN files' ]_vars

(* C25 - code_bug.  generate_session_id gives every parser run a session id *)
(* no earlier run had, also for two runs on files of the same name started  *)
(* in the same clock second, so a run never writes in the session directory *)
(* of another run.                                                          *)
C25_SessionIdsUnique ==
    [][ \A file_name \in FileNames : \A body \in SessionDocs :
            ParserStart(file_name, body) =>
                GenerateSessionId(file_name, clock) \notin DOMAIN sessions ]_vars

\* the extracted paragraphs that have text and a mapped style
MappedParagraphs ==
    SelectSeq(Get(Parsed, "paragraphs", <<>>),
              LAMBDA para : /\ Strip(Get(para, "text", <<>>)) # <<>>
                            /\ Get(para, "semantic_type", "unknown") # "unknown")

\* the groups of the translatable content, one after the other
TranslatableGroups ==
    << Translatable.document_title,
       Translatable.headers.main_headers,
       Translatable.headers.sub_headers,
       Translatable.content.body_text,
       Translatable.content.special_content,
       Translatable.content.list_items,
       Translatable.content.quotes,
       Translatable.content.captions >>

\* the places of the groups where a paragraph stands
GroupPlaces(para) ==
    {<<g, k>> \in (1..Len(TranslatableGroups)) \X (0..MaxBlocks) :
        /\ k \in 1..Len(TranslatableGroups[g])
        /\ TranslatableGroups[g][k].index = para.paragraph_index
        /\ TranslatableGroups[g][k].text = para.text}

RECURSIVE GroupTotalFrom(_)
GroupTotalFrom(g) ==
    IF g > Len(TranslatableGroups) THEN 0
    ELSE Len(TranslatableGroups[g]) + GroupTotalFrom(g + 1)

(* C27 - code_bug.  Grouping by kind is a partition of the extracted        *)
(* paragraphs: every extracted non-empty paragraph with a mapped style      *)
(* stands in exactly one group of the translatable content, and the total   *)
(* over the groups is the number of such paragraphs, also when several      *)
(* paragraphs carry the title style.                                        *)
C27_GroupingIsPartition ==
    ParserDone =>
        /\ \A p \in 1..Len(MappedParagraphs) :
              Cardinality(GroupPlaces(MappedParagraphs[p])) = 1
        /\ GroupTotalFrom(1) = Len(MappedParagraphs)

(* C28 - code_bug.  For a paragraph whose source had several runs with      *)
(* mixed formatting, the whole translated text is written as one run whose  *)
(* bold and italic are those of the primary source run: the first source    *)
(* run that was bold, italic or of a non-default color, or the first run    *)
(* when there is none (bold being forced for titles and headers); this      *)
(* holds for the paragraph as written after the style stage.                *)
C28_PrimaryRunFormatting ==
    OutputDone =>
        (\A p \in 1..Len(StyledParagraphs) :
            LET t == StyledParagraphs[p].type
                e == StyledParagraphs[p].element
            IN
            Len(OriginalRuns(e)) >= 2 =>
                \A j \in WrittenFor(e) :
                    LET written == document[1][j].runs
                        primary == PrimaryRun(OriginalRuns(e))
                    IN /\ Len(written) = 1
                       /\ written[1].text = e.translated_text
                       /\ Get(written[1].font, "bold", FALSE)
                              = (t \in BoldTypes \/ primary.bold)
                       /\ Get(written[1].font, "italic", FALSE) = primary.italic)

\* the indexes of the entries of an outline, with those of their content and
\* of their children
RECURSIVE OutlineIndexes(_)
OutlineIndexes(nodes) ==
    IF nodes = <<>> THEN <<>>
    ELSE LET node == Head(nodes) IN
         <<node.index>>
         \o OutlineIndexes(Get(node, "content", <<>>))
         \o OutlineIndexes(Get(node, "children", <<>>))
         \o OutlineIndexes(Tail(nodes))

\* how often the paragraph of an index stands in the outline
OutlineCount(index) ==
    LET indexes == OutlineIndexes(Parsed.document_outline)
    IN Cardinality({k \in 1..Len(indexes) : indexes[k] = index})

(* C29 - code_bug.  The outline is built by one left-to-right scan (a main  *)
(* header opens a section, a sub header attaches to the open section or     *)
(* stands at the top level, content attaches to the innermost open          *)
(* subsection or section, else to the top level), so every extracted        *)
(* paragraph appears exactly once in the outline.                           *)
C29_OutlineHoldsEveryParagraph ==
    ParserDone =>
        \A p \in 1..Len(Parsed.paragraphs) :
            OutlineCount(Parsed.paragraphs[p].paragraph_index) = 1

(* C30 - code_bug.  The text _call_azure_openai_translation returns on a    *)
(* successful call never begins with one of the label prefixes it strips    *)
(* ("[TARGET]", "[target]", "TARGET:", "target:", "Translation:",           *)
(* "Translated text:", "Result:"), whatever prefixes, in whatever           *)
(* combination and order, the response of the collaborator began with.      *)
C30_NoPrefixLeft ==
    TranslationDone =>
        \A k \in 1..Len(TranslatedParagraphs) :
            LET item == TranslatedParagraphs[k]
                prefixes == PrefixesToRemove(TranslatedLanguage)
            IN (llm.configured /\ ~Degraded(item)) =>
                   \A j \in 1..Len(prefixes) :
                       ~StartsWith(item.translated_text, prefixes[j])


====
